---- MODULE Spec2Model ----
(***************************************************************************)
(* Carbonly backend: the emissions computation and aggregation engine      *)
(* (app/services/emissions.py) and the request handlers that drive it      *)
(* (app/api/integrations.py, app/api/dashboard.py, app/api/reports.py,     *)
(* app/api/company.py).                                                    *)
(*                                                                         *)
(* Representation of values:                                               *)
(*   - a date is the integer yyyymmdd, so that integer order is date order *)
(*     and strftime("%Y-%m") is yyyymm; NULLDATE stands for SQL NULL;      *)
(*   - a Decimal operand (quantity, factor_value) is a record [c, e]:      *)
(*     coefficient and exponent, value c * 10^e, as in Python's Decimal;   *)
(*   - a Decimal quantized to 0.000001 is the integer number of 10^-6      *)
(*     units; a confidence score is the integer number of 10^-2 units,     *)
(*     NOSCORE standing for None;                                          *)
(*   - the uuid4() primary key of an activity record is a positive         *)
(*     integer, that of a connection the pair of its company and provider  *)
(*     (at most one row per pair exists at a time); NOREF stands for a     *)
(*     NULL reference;                                                     *)
(*   - the uuid4() primary key of an estimate or summary row is kept as    *)
(*     the field is_new: TRUE for a row the last call inserted (its key    *)
(*     is carried by no row that existed before the call), FALSE for a     *)
(*     row that existed before the last call and kept its key.             *)
(***************************************************************************)
EXTENDS Integers, Sequences, FiniteSets, TLC

NULLSTR == "<null>"        \* None / SQL NULL in a string column
NULLDATE == 0              \* None / SQL NULL in a date column
NOSCORE == 0 - 1           \* None / SQL NULL in confidence_score
NOFACTOR == 0              \* get_matching_factor returned None
NOREF == <<>>              \* None / SQL NULL in a foreign key

-----------------------------------------------------------------------------
(* Bounds of the model *)

MaxObs == 2                \* activity_records rows a behaviour may hold

-----------------------------------------------------------------------------
(* Dates *)

YearOf(d) == d \div 10000
MonthValue(d) == d \div 100
Jan1(y) == y * 10000 + 101
Dec31(y) == y * 10000 + 1231

Years == {2024, 2025}

-----------------------------------------------------------------------------
(* Decimal arithmetic *)

RECURSIVE Pow10(_)
Pow10(k) == IF k <= 0 THEN 1 ELSE 10 * Pow10(k - 1)

Abs(n) == IF n < 0 THEN 0 - n ELSE n

\* Variant: ties away from zero (ROUND_HALF_UP).
RoundHalfUpDiv(n, d) ==
    LET a == Abs(n)
        q == a \div d
        r == a % d
        m == IF 2 * r >= d THEN q + 1 ELSE q
    IN IF n < 0 THEN 0 - m ELSE m

\* n / d rounded to an integer, ties to the even neighbour (ROUND_HALF_EVEN,
\* the rounding of Python's default decimal context); d > 0.
RoundHalfEvenDiv(n, d) ==
    LET a == Abs(n)
        q == a \div d
        r == a % d
        m == IF 2 * r > d THEN q + 1
             ELSE IF 2 * r < d THEN q
             ELSE IF q % 2 = 0 THEN q ELSE q + 1
    IN IF n < 0 THEN 0 - m ELSE m

\* Decimal.__mul__: coefficients multiply, exponents add.
DecMul(x, y) == [c |-> x.c * y.c, e |-> x.e + y.e]

\* Decimal.quantize(Decimal("0.000001")): the number of 10^-6 units.
QuantizeMicro(x) ==
    IF x.e >= 0 - 6 THEN x.c * Pow10(x.e + 6)
    ELSE RoundHalfEvenDiv(x.c, Pow10(0 - 6 - x.e))

-----------------------------------------------------------------------------
(* Factor resolver: get_matching_factor *)

\* Python truthiness of `scope_3_category` (a str or None).
Truthy(s) == s # NULLSTR /\ s # ""

\* Variant: the factor's validity must contain the period.
FactorMatchesContainment(f, activity_type, unit, scope, scope_3_category, period_start, period_end) ==
    /\ f.activity_type = activity_type
    /\ f.unit = unit
    /\ f.scope = scope
    /\ (f.valid_from = NULLDATE \/ f.valid_from <= period_start)
    /\ (f.valid_to = NULLDATE \/ f.valid_to >= period_end)
    /\ IF scope = 3
       THEN IF Truthy(scope_3_category)
            THEN f.scope_3_category = scope_3_category
            ELSE f.scope_3_category = NULLSTR
       ELSE f.scope_3_category = NULLSTR

\* The WHERE clause: the conditions list joined by and_().
FactorMatches(f, activity_type, unit, scope, scope_3_category, period_start, period_end) ==
    /\ f.activity_type = activity_type
    /\ f.unit = unit
    /\ f.scope = scope
    /\ (f.valid_from = NULLDATE \/ f.valid_from <= period_end)
    /\ (f.valid_to = NULLDATE \/ f.valid_to >= period_start)
    /\ IF scope = 3
       THEN IF Truthy(scope_3_category)
            THEN f.scope_3_category = scope_3_category
            ELSE f.scope_3_category = NULLSTR
       ELSE f.scope_3_category = NULLSTR

\* column.desc().nullslast(): a sorts strictly before b.
DescNullsLast(a, b) == a # NULLDATE /\ (b = NULLDATE \/ a > b)

\* ORDER BY valid_to DESC NULLS LAST, valid_from DESC NULLS LAST.
OrderedBefore(f, g) ==
    \/ DescNullsLast(f.valid_to, g.valid_to)
    \/ (f.valid_to = g.valid_to /\ DescNullsLast(f.valid_from, g.valid_from))

\* The rows the query may return as its first row (LIMIT 1): the ORDER BY
\* names no further key, so among rows equal in both keys the database
\* returns any one.  The result is the set of possible return values, as
\* factor ids; {NOFACTOR} when scalar_one_or_none() yields None.
GetMatchingFactor(table, activity_type, unit, scope, scope_3_category, period_start, period_end) ==
    LET cand == {f \in table : FactorMatches(f, activity_type, unit, scope,
                                             scope_3_category, period_start, period_end)}
        first == {f \in cand : \A g \in cand : ~OrderedBefore(g, f)}
    IN IF cand = {} THEN {NOFACTOR} ELSE {f.id : f \in first}

FactorById(table, fid) == CHOOSE f \in table : f.id = fid

-----------------------------------------------------------------------------
(* Estimate calculator: compute_estimate_for_activity *)

\* emissions_kg_co2e = (quantity * factor_value).quantize(Decimal("0.000001"))
EmissionsKgCo2e(quantity, factor_value) == QuantizeMicro(DecMul(quantity, factor_value))

\* Variant: the provenance fields are not copied from the record; the row
\* is labelled as an estimate without a score.
ComputeEstimateWithOwnProvenance(record, factor) ==
    [is_new |-> TRUE,
     company_id |-> record.company_id,
     activity_record_id |-> record.id,
     emission_factor_id |-> factor.id,
     scope |-> record.scope,
     scope_3_category |-> record.scope_3_category,
     activity_quantity |-> record.quantity,
     factor_value |-> factor.factor_value,
     emissions_kg_co2e |-> EmissionsKgCo2e(record.quantity, factor.factor_value),
     data_quality |-> "estimated",
     assumptions |-> NULLSTR,
     confidence_score |-> NOSCORE,
     period_start |-> record.period_start,
     period_end |-> record.period_end]

\* The EmissionEstimate row built for `record` priced with `factor`.
ComputeEstimateForActivity(record, factor) ==
    [is_new |-> TRUE,
     company_id |-> record.company_id,
     activity_record_id |-> record.id,
     emission_factor_id |-> factor.id,
     scope |-> record.scope,
     scope_3_category |-> record.scope_3_category,
     activity_quantity |-> record.quantity,
     factor_value |-> factor.factor_value,
     emissions_kg_co2e |-> EmissionsKgCo2e(record.quantity, factor.factor_value),
     data_quality |-> record.data_quality,
     assumptions |-> record.assumptions,
     confidence_score |-> record.confidence_score,
     period_start |-> record.period_start,
     period_end |-> record.period_end]

\* The outcomes of get_matching_factor for a record.
ResolveRecord(table, record) ==
    GetMatchingFactor(table, record.activity_type, record.unit, record.scope,
                      record.scope_3_category, record.period_start, record.period_end)

-----------------------------------------------------------------------------
(* Row identity *)

Ids(rows) == {r.id : r \in rows}

\* The least positive integer not in `used`: the key of a new activity record.
FreshId(used) == CHOOSE i \in 1..(Cardinality(used) + 1) :
                    i \notin used /\ \A j \in 1..(i - 1) : j \in used

\* The rows of a table as a later call finds them: none is new any more.
Old(rows) == {[r EXCEPT !.is_new = FALSE] : r \in rows}

-----------------------------------------------------------------------------
(* Estimate lifecycle: ensure_estimates_for_activity and the loop of        *)
(* compute_estimates_for_company.  `fid` is the outcome of the resolver    *)
(* for the record.                                                         *)

\* Variant: replace mode without the DELETE of the record's estimates.
EnsureWithoutDelete(est, table, record, replace_existing, fid) ==
    LET own == {e \in est : e.activity_record_id = record.id}
    IN IF replace_existing
       THEN IF fid = NOFACTOR THEN est
            ELSE est \cup {ComputeEstimateForActivity(record, FactorById(table, fid))}
       ELSE IF own # {} THEN est
            ELSE IF fid = NOFACTOR THEN est
            ELSE est \cup {ComputeEstimateForActivity(record, FactorById(table, fid))}

\* Variant: replace_existing is not honoured, every call is incremental.
EnsureIgnoresReplace(est, table, record, replace_existing, fid) ==
    LET own == {e \in est : e.activity_record_id = record.id}
    IN IF own # {} THEN est
       ELSE IF fid = NOFACTOR THEN est
       ELSE est \cup {ComputeEstimateForActivity(record, FactorById(table, fid))}

\* ensure_estimates_for_activity(session, record, replace_existing): the
\* emission_estimates table after the call.
EnsureEstimatesForActivity(est, table, record, replace_existing, fid) ==
    LET own == {e \in est : e.activity_record_id = record.id}
    IN IF replace_existing
       THEN IF fid = NOFACTOR THEN est \ own
            ELSE (est \ own) \cup {ComputeEstimateForActivity(record, FactorById(table, fid))}
       ELSE IF own # {} THEN est
            ELSE IF fid = NOFACTOR THEN est
            ELSE est \cup {ComputeEstimateForActivity(record, FactorById(table, fid))}

\* Variant: incremental mode without the `if existing: continue` test.
BatchStepWithoutExistingTest(est, table, record, replace_existing, fid) ==
    LET own == {e \in est : e.activity_record_id = record.id}
        kept == IF replace_existing THEN est \ own ELSE est
    IN IF fid = NOFACTOR THEN kept
       ELSE kept \cup {ComputeEstimateForActivity(record, FactorById(table, fid))}

\* One iteration of `for record in records` in compute_estimates_for_company.
BatchStep(est, table, record, replace_existing, fid) ==
    LET own == {e \in est : e.activity_record_id = record.id}
        kept == IF replace_existing THEN est \ own ELSE est
    IN IF ~replace_existing /\ own # {} THEN est
       ELSE IF fid = NOFACTOR THEN kept
       ELSE kept \cup {ComputeEstimateForActivity(record, FactorById(table, fid))}

\* `est is not None`: the step inserted a row for the record.
Inserted(est, record) == \E e \in est : e.activity_record_id = record.id /\ e.is_new

\* The records the batch iterates: the company's, optionally those whose
\* period intersects [period_start, period_end] (NULLDATE: no bound).
BatchRecords(records, company_id, period_start, period_end) ==
    {r \in records :
        /\ r.company_id = company_id
        /\ (period_start = NULLDATE \/ r.period_end >= period_start)
        /\ (period_end = NULLDATE \/ r.period_start <= period_end)}

RECURSIVE BatchLoopStopsAtNoFactor(_, _, _, _, _)
\* Variant: a record for which no factor resolves ends the loop.
BatchLoopStopsAtNoFactor(recs, est, table, replace_existing, pick) ==
    IF recs = {} THEN [est |-> est, count |-> 0]
    ELSE LET record == CHOOSE x \in recs : \A y \in recs : x.id <= y.id
             est1 == BatchStep(est, table, record, replace_existing, pick[record.id])
             rest == BatchLoopStopsAtNoFactor(recs \ {record}, est1, table, replace_existing, pick)
         IN IF pick[record.id] = NOFACTOR
            THEN [est |-> est1, count |-> 0]
            ELSE [est |-> rest.est,
                  count |-> rest.count + (IF Inserted(est1, record) THEN 1 ELSE 0)]

RECURSIVE BatchLoop(_, _, _, _, _)
\* The whole loop; `pick` maps a record id to the resolver's outcome for it.
\* Yields the table and the count of estimates created.
BatchLoop(recs, est, table, replace_existing, pick) ==
    IF recs = {} THEN [est |-> est, count |-> 0]
    ELSE LET record == CHOOSE x \in recs : \A y \in recs : x.id <= y.id
             est1 == BatchStep(est, table, record, replace_existing, pick[record.id])
             rest == BatchLoop(recs \ {record}, est1, table, replace_existing, pick)
         IN [est |-> rest.est,
             count |-> rest.count + (IF Inserted(est1, record) THEN 1 ELSE 0)]

\* The resolver outcomes a batch over `recs` may see.
Picks(recs, table) ==
    {p \in [Ids(recs) -> UNION {ResolveRecord(table, r) : r \in recs}] :
        \A r \in recs : p[r.id] \in ResolveRecord(table, r)}

\* compute_estimates_for_company(session, company_id, period_start,
\* period_end, replace_existing) under the resolver outcomes `pick`.
ComputeEstimatesForCompany(records, est, table, company_id, period_start, period_end, replace_existing, pick) ==
    BatchLoop(BatchRecords(records, company_id, period_start, period_end),
              Old(est), table, replace_existing, pick)

-----------------------------------------------------------------------------
(* Summary aggregator: refresh_emissions_summaries *)

DATA_QUALITY_MEASURED == "measured"
DATA_QUALITY_ESTIMATED == "estimated"
DATA_QUALITY_MANUAL == "manual"

RECURSIVE SumEmissions(_)
SumEmissions(group) ==
    IF group = {} THEN 0
    ELSE LET e == CHOOSE x \in group : TRUE
         IN e.emissions_kg_co2e + SumEmissions(group \ {e})

RECURSIVE SumScores(_)
SumScores(group) ==
    IF group = {} THEN 0
    ELSE LET e == CHOOSE x \in group : TRUE
         IN e.confidence_score + SumScores(group \ {e})

\* Variant: the mean is taken over the whole group, an estimate without a
\* score counting as zero.
ConfidenceAvgOverGroup(group) ==
    LET scored == {e \in group : e.confidence_score # NOSCORE}
    IN IF scored = {} THEN NOSCORE
       ELSE RoundHalfEvenDiv(SumScores(scored), Cardinality(group))

\* (sum(conf_scores) / len(conf_scores)).quantize(Decimal("0.01")), or None.
ConfidenceAvg(group) ==
    LET scored == {e \in group : e.confidence_score # NOSCORE}
    IN IF scored = {} THEN NOSCORE
       ELSE RoundHalfEvenDiv(SumScores(scored), Cardinality(scored))

\* Variant: the SELECT tests the year of period_start only.
EstimatesOfStartYear(est, company_id, reporting_year) ==
    {e \in est : /\ e.company_id = company_id
                 /\ e.period_start >= Jan1(reporting_year)
                 /\ e.period_start <= Dec31(reporting_year)}

\* select(EmissionEstimate) of the company within the reporting year
EstimatesOfYear(est, company_id, reporting_year) ==
    {e \in est : /\ e.company_id = company_id
                 /\ e.period_start >= Jan1(reporting_year)
                 /\ e.period_end <= Dec31(reporting_year)}

\* The keys of the `buckets` dict: (period_type, period_value, scope, category).
BucketKeys(loaded, reporting_year) ==
    {<<"annual", reporting_year, e.scope, e.scope_3_category>> : e \in loaded}
    \cup {<<"monthly", MonthValue(e.period_start), e.scope, e.scope_3_category>> : e \in loaded}

\* Variant: a monthly bucket takes every estimate whose period covers the month.
BucketOfCoveredMonths(loaded, key) ==
    {e \in loaded : /\ e.scope = key[3]
                    /\ e.scope_3_category = key[4]
                    /\ (key[1] = "monthly" =>
                            MonthValue(e.period_start) <= key[2] /\ key[2] <= MonthValue(e.period_end))}

\* The list stored under a key.
Bucket(loaded, key) ==
    {e \in loaded : /\ e.scope = key[3]
                    /\ e.scope_3_category = key[4]
                    /\ (key[1] = "monthly" => MonthValue(e.period_start) = key[2])}

\* The EmissionsSummary row built from one bucket (id not yet assigned).
SummaryRow(company_id, reporting_year, key, group) ==
    [is_new |-> TRUE,
     company_id |-> company_id,
     reporting_year |-> reporting_year,
     period_type |-> key[1],
     period_value |-> key[2],
     scope |-> key[3],
     scope_3_category |-> key[4],
     total_kg_co2e |-> SumEmissions(group),
     measured_kg_co2e |-> SumEmissions({e \in group : e.data_quality = DATA_QUALITY_MEASURED}),
     estimated_kg_co2e |-> SumEmissions({e \in group : e.data_quality = DATA_QUALITY_ESTIMATED}),
     manual_kg_co2e |-> SumEmissions({e \in group : e.data_quality = DATA_QUALITY_MANUAL}),
     confidence_score_avg |-> ConfidenceAvg(group)]

\* The rows the second loop adds to the session.
BuiltSummaries(est, company_id, reporting_year) ==
    LET loaded == EstimatesOfYear(est, company_id, reporting_year)
    IN {SummaryRow(company_id, reporting_year, key, Bucket(loaded, key)) :
            key \in BucketKeys(loaded, reporting_year)}

\* The rows the DELETE removes.
SummariesOf(summ, company_id, reporting_year) ==
    {s \in summ : s.company_id = company_id /\ s.reporting_year = reporting_year}

\* Variant: the rebuild without the DELETE of the year's rows.
RefreshWithoutDelete(summ, est, company_id, reporting_year) ==
    LET loaded == EstimatesOfYear(est, company_id, reporting_year)
        built == BuiltSummaries(est, company_id, reporting_year)
    IN [summ |-> Old(summ) \cup built,
        count |-> Cardinality(BucketKeys(loaded, reporting_year))]

\* refresh_emissions_summaries(session, company_id, reporting_year): the
\* emissions_summaries table after the call and the returned count.
RefreshEmissionsSummaries(summ, est, company_id, reporting_year) ==
    LET old == SummariesOf(Old(summ), company_id, reporting_year)
        loaded == EstimatesOfYear(est, company_id, reporting_year)
        built == BuiltSummaries(est, company_id, reporting_year)
    IN [summ |-> (Old(summ) \ old) \cup built,
        count |-> Cardinality(BucketKeys(loaded, reporting_year))]

-----------------------------------------------------------------------------
(* Inputs *)

Companies == {"acme"}

\* Rows of the emission_factors reference table.
Factor(id, activity_type, c, e, unit, scope, scope_3_category, valid_from, valid_to) ==
    [id |-> id, activity_type |-> activity_type, factor_value |-> [c |-> c, e |-> e],
     unit |-> unit, scope |-> scope, scope_3_category |-> scope_3_category,
     valid_from |-> valid_from, valid_to |-> valid_to]

\* The two factors dev_seed and scripts/seed_dev.py insert.
SeedFactors ==
    {Factor(1, "cloud_compute_hours", 5, 0 - 5, "hours", 3, "cloud", NULLDATE, NULLDATE),
     Factor(2, "cloud_storage_gb_months", 2, 0 - 5, "GB-months", 3, "cloud", NULLDATE, NULLDATE)}

\* Further reference rows: a factor bounded to 2024, and a second
\* open-ended factor of the same signature as the seeded one.
Factor2024 == Factor(3, "cloud_compute_hours", 6, 0 - 5, "hours", 3, "cloud", 20240101, 20241231)
FactorTwin == Factor(4, "cloud_compute_hours", 7, 0 - 5, "hours", 3, "cloud", NULLDATE, NULLDATE)

\* The contents the reference table may have.
FactorTables == {{}, SeedFactors, SeedFactors \cup {Factor2024, FactorTwin}}

\* A request body (ManualActivityRequest) or a CSV row (CsvRowSchema); the
\* float fields are given by their decimal literal.
Request(scope, scope_3_category, activity_type, unit, c, e, period_start, period_end, data_quality, confidence_score) ==
    [scope |-> scope, scope_3_category |-> scope_3_category, activity_type |-> activity_type,
     unit |-> unit, quantity |-> [c |-> c, e |-> e], period_start |-> period_start,
     period_end |-> period_end, data_quality |-> data_quality, assumptions |-> NULLSTR,
     confidence_score |-> confidence_score]

ManualRequests ==
    {Request(3, "cloud", "cloud_compute_hours", "hours", 800, 0, 20250101, 20250128, "estimated", 9000),
     Request(3, "cloud", "cloud_compute_hours", "hours", 3, 0 - 2, 20240301, 20240331, "verified", 0),
     Request(1, NULLSTR, "diesel", "litres", 100, 0, 20250101, 20250131, "manual", NOSCORE)}

CsvRows ==
    {Request(3, "cloud", "cloud_storage_gb_months", "GB-months", 5000, 0, 20250201, 20250228, "manual", 8545),
     Request(3, "cloud", "cloud_storage_gb_months", "GB-months", 250, 0, 20250201, 20250228, "manual", NOSCORE)}

\* Decimal(str(x)) of a float x: repr prints an integral float with ".0".
DecimalOfFloat(x) == IF x.e >= 0 THEN [c |-> x.c * Pow10(x.e + 1), e |-> 0 - 1] ELSE x

\* The providers a sync or estimate request names.
Providers == {"aws"}

\* cloud_providers of list_integrations.
DefaultProviders == {"aws", "gcp", "azure"}

-----------------------------------------------------------------------------
(* State *)

VARIABLES
    emission_factors,         \* table emission_factors
    activity_records,         \* table activity_records
    emission_estimates,       \* table emission_estimates
    emissions_summaries,      \* table emissions_summaries
    data_source_connections,  \* table data_source_connections
    reporting_year,           \* companies.reporting_year, per company
    lastOp,                   \* the last call of the engine: name, arguments, result
    resolve_call,             \* the last call of get_matching_factor: arguments, result
    calc,                     \* the last product priced: quantity, factor_value, emissions
    sessions,                 \* the open database session of each concurrent request
    clock,                    \* time.time() and datetime.now(timezone.utc), in seconds
    rate_limits,              \* _rate_limits: per key, the times of the admitted requests
    password_hash,            \* users.password_hash, per user
    password_reset_tokens,    \* table password_reset_tokens
    reports,                  \* table reports
    idempotency_keys,         \* table idempotency_keys
    onboarding_state,         \* companies.onboarding_state, per company
    response,                 \* the last HTTP response: endpoint, caller, status, body
    admitted_log,             \* per rate-limit key, the times of all requests admitted so far
    inflight                  \* per session, the keyed request between its two commits

\* The state outside the emissions engine.
aux == <<clock, rate_limits, password_hash, password_reset_tokens, reports, idempotency_keys, onboarding_state, response, admitted_log, inflight>>

vars == <<emission_factors, activity_records, emission_estimates, emissions_summaries,
          data_source_connections, reporting_year, lastOp, resolve_call, calc, sessions, aux>>

\* The users of the company: an ordinary account and the demo account
\* (User.is_demo, set by ensure_demo_data).
Users == {"owner", "demo", "rival"}
IsDemo(user) == user = "demo"

\* The keys of _rate_limits: "<client address>:<action>".
RateKeys == {<<"10.0.0.1", "password_reset">>, <<"10.0.0.1", "password_forgot">>}

\* The requests that may be in flight at once.
Sessions == {1, 2}

\* A session that is not between the two commits of a keyed request.
NoRequest == [pc |-> "idle", name |-> "", user |-> "", endpoint |-> <<"", 0>>, key |-> "", request_hash |-> <<>>, body |-> <<>>]

\* No request answered yet.
NoResponse == [endpoint |-> "", user |-> "", status |-> 0, body |-> <<>>]

\* The state outside the engine after start-up: the clock at its origin,
\* an empty rate limiter, the users' first password hashes, empty tables.
AuxInit ==
    /\ clock = 0
    /\ rate_limits = [k \in RateKeys |-> <<>>]
    /\ password_hash = [u \in Users |-> <<"old-password", 0>>]
    /\ password_reset_tokens = {}
    /\ reports = {}
    /\ idempotency_keys = {}
    /\ onboarding_state = [c \in Companies |-> {}]
    /\ response = NoResponse
    /\ admitted_log = [k \in RateKeys |-> <<>>]
    /\ inflight = [t \in Sessions |-> NoRequest]


\* A request that has not begun: no transaction, nothing pending.  `todo`
\* holds the ids of the records the batch still has to visit, `targets` the
\* rows a DELETE selected, `built` the summary rows waiting for the flush,
\* ins_* and del_* the rows written and not yet committed, `failed_at` the
\* step at which the request last raised or was cancelled.
IdleSession ==
    [pc |-> "idle", company_id |-> "", year |-> 0, replace_existing |-> FALSE,
     todo |-> {}, targets |-> {}, built |-> {},
     ins_rec |-> {}, ins_est |-> {}, del_est |-> {}, ins_summ |-> {}, del_summ |-> {},
     failed_at |-> ""]

\* No call of the resolver, no product priced yet.
NoResolve == [activity_type |-> "", unit |-> "", scope |-> 0, scope_3_category |-> NULLSTR,
              period_start |-> NULLDATE, period_end |-> NULLDATE, result |-> NOFACTOR]
NoCalc == [quantity |-> [c |-> 0, e |-> 0], factor_value |-> [c |-> 0, e |-> 0],
           emissions_kg_co2e |-> 0]

\* The record of a call of the engine: its name, its arguments, the year
\* refresh ran for (0: none), the returned count (created_count of the
\* batch and of ensure, the row count of refresh), and whether the call
\* before it had the same name and arguments.
Op(name, args, year, ret) ==
    [name |-> name, args |-> args, year |-> year, ret |-> ret,
     repeat |-> (lastOp.name = name /\ lastOp.args = args)]

\* The record of a request that calls no engine function.
NoEngineCall == [name |-> "none", args |-> <<>>, year |-> 0, ret |-> 0, repeat |-> FALSE]

\* A table a call does not write: its rows keep their keys.
KeepEstimates == emission_estimates' = Old(emission_estimates)
KeepSummaries == emissions_summaries' = Old(emissions_summaries)

Init ==
    /\ emission_factors \in FactorTables
    /\ activity_records = {}
    /\ emission_estimates = {}
    /\ emissions_summaries = {}
    /\ data_source_connections = {}
    /\ reporting_year = [c \in Companies |-> 2025]
    /\ lastOp = NoEngineCall
    /\ resolve_call = NoResolve
    /\ calc = NoCalc
    /\ sessions = [t \in Sessions |-> IdleSession]
    /\ AuxInit

-----------------------------------------------------------------------------
(* Request handlers.  Each action is one request, from its first statement  *)
(* to db.commit(); a request that raises changes nothing in the store.     *)

\* ActivityRecord(...) of create_manual_activity.
ManualActivityRecord(req, company_id, newId) ==
    [id |-> newId,
     company_id |-> company_id,
     data_source_connection_id |-> NOREF,
     scope |-> req.scope,
     scope_3_category |-> req.scope_3_category,
     activity_type |-> req.activity_type,
     quantity |-> DecimalOfFloat(req.quantity),
     unit |-> req.unit,
     period_start |-> req.period_start,
     period_end |-> req.period_end,
     data_quality |-> req.data_quality,
     assumptions |-> req.assumptions,
     confidence_score |-> IF req.confidence_score = NOSCORE \/ req.confidence_score = 0
                          THEN NOSCORE ELSE req.confidence_score]

\* ActivityRecord(...) of upload_manual_csv, from a validated row.
CsvActivityRecord(row, company_id, newId) ==
    [id |-> newId,
     company_id |-> company_id,
     data_source_connection_id |-> NOREF,
     scope |-> row.scope,
     scope_3_category |-> row.scope_3_category,
     activity_type |-> row.activity_type,
     quantity |-> DecimalOfFloat(row.quantity),
     unit |-> row.unit,
     period_start |-> row.period_start,
     period_end |-> row.period_end,
     data_quality |-> IF row.data_quality = "" THEN "manual" ELSE row.data_quality,
     assumptions |-> row.assumptions,
     confidence_score |-> row.confidence_score]

\* The mock rows of create_mock_cloud_activities and create_estimated_activity.
ProviderActivity(newId, company_id, connection_id, activity_type, c, unit, year, data_quality, assumptions, confidence_score) ==
    [id |-> newId,
     company_id |-> company_id,
     data_source_connection_id |-> connection_id,
     scope |-> 3,
     scope_3_category |-> "cloud",
     activity_type |-> activity_type,
     quantity |-> [c |-> c, e |-> 0 - 1],
     unit |-> unit,
     period_start |-> Jan1(year),
     period_end |-> Dec31(year),
     data_quality |-> data_quality,
     assumptions |-> assumptions,
     confidence_score |-> confidence_score]

\* Variant: the refresh reads the estimates as they were before the batch.
OrchestrateRefreshFirst(records, est, summ, table, company_id, period_start, period_end, replace_existing, year, pick) ==
    LET batch == ComputeEstimatesForCompany(records, est, table, company_id,
                                            period_start, period_end, replace_existing, pick)
        refresh == RefreshEmissionsSummaries(summ, Old(est), company_id, year)
    IN [est |-> batch.est, summ |-> refresh.summ, count |-> batch.count, rows |-> refresh.count]

\* The two engine calls every mutation path makes after its inserts:
\* compute_estimates_for_company(...), then
\* refresh_emissions_summaries(db, company.id, year).
Orchestrate(records, est, summ, table, company_id, period_start, period_end, replace_existing, year, pick) ==
    LET batch == ComputeEstimatesForCompany(records, est, table, company_id,
                                            period_start, period_end, replace_existing, pick)
        refresh == RefreshEmissionsSummaries(summ, batch.est, company_id, year)
    IN [est |-> batch.est, summ |-> refresh.summ, count |-> batch.count, rows |-> refresh.count]

\* POST /api/integrations/manual/activity
CreateManualActivity(company_id, req) ==
    /\ Cardinality(activity_records) < MaxObs
    /\ LET activity == ManualActivityRecord(req, company_id, FreshId(Ids(activity_records)))
           records == activity_records \cup {activity}
           year == reporting_year[company_id]
       IN \E pick \in Picks(BatchRecords(records, company_id, NULLDATE, NULLDATE), emission_factors) :
            LET o == Orchestrate(records, emission_estimates, emissions_summaries,
                                 emission_factors, company_id, NULLDATE, NULLDATE, FALSE, year, pick)
            IN /\ activity_records' = records
               /\ emission_estimates' = o.est
               /\ emissions_summaries' = o.summ
               /\ lastOp' = Op("create_manual_activity", <<company_id>>, year, o.count)
    /\ UNCHANGED <<aux, sessions, resolve_call, calc, emission_factors, data_source_connections, reporting_year>>

RECURSIVE CsvInsert(_, _, _)
\* The loop `for row in valid_rows` of upload_manual_csv.
CsvInsert(rows, company_id, records) ==
    IF rows = <<>> THEN records
    ELSE CsvInsert(Tail(rows), company_id,
                   records \cup {CsvActivityRecord(Head(rows), company_id, FreshId(Ids(records)))})

\* POST /api/integrations/manual/upload, valid_rows being the parsed rows
UploadManualCsv(company_id, valid_rows) ==
    /\ Cardinality(activity_records) + Len(valid_rows) <= MaxObs
    /\ LET records == CsvInsert(valid_rows, company_id, activity_records)
           inserted == Len(valid_rows)
           year == reporting_year[company_id]
       IN IF inserted > 0
          THEN \E pick \in Picks(BatchRecords(records, company_id, NULLDATE, NULLDATE), emission_factors) :
                 LET o == Orchestrate(records, emission_estimates, emissions_summaries,
                                      emission_factors, company_id, NULLDATE, NULLDATE, FALSE, year, pick)
                 IN /\ activity_records' = records
                    /\ emission_estimates' = o.est
                    /\ emissions_summaries' = o.summ
                    /\ lastOp' = Op("upload_manual_csv", <<company_id>>, year, o.count)
          ELSE /\ UNCHANGED activity_records
               /\ KeepEstimates
               /\ KeepSummaries
               /\ lastOp' = NoEngineCall
    /\ UNCHANGED <<aux, sessions, resolve_call, calc, emission_factors, data_source_connections, reporting_year>>

\* get_connection(session, company_id, provider): the matching rows.
GetConnection(company_id, provider) ==
    {c \in data_source_connections : c.company_id = company_id /\ c.source_type = provider}

\* A data_source_connections row.
Connection(company_id, provider) ==
    [id |-> <<company_id, provider>>, company_id |-> company_id, source_type |-> provider]

\* The rows has_mock_activities selects.
MockActivities(records, company_id, connection_id, year) ==
    {r \in records : /\ r.company_id = company_id
                     /\ r.data_source_connection_id = connection_id
                     /\ r.period_start = Jan1(year)
                     /\ r.period_end = Dec31(year)}

\* create_mock_cloud_activities
CreateMockCloudActivities(records, company_id, connection_id, year) ==
    LET id1 == FreshId(Ids(records))
        id2 == FreshId(Ids(records) \cup {id1})
    IN records \cup
       {ProviderActivity(id1, company_id, connection_id, "cloud_compute_hours", 100000, "hours",
                         year, "measured", "Mock data from provider API", 9500),
        ProviderActivity(id2, company_id, connection_id, "cloud_storage_gb_months", 50000,
                         "GB-months", year, "measured", "Mock data from provider API", 9500)}

\* A request that ends in an error response: nothing is committed.
Failed(status) ==
    /\ lastOp' = NoEngineCall
    /\ KeepEstimates
    /\ KeepSummaries
    /\ UNCHANGED <<aux, sessions, resolve_call, calc, emission_factors, activity_records, data_source_connections, reporting_year>>

\* POST /api/integrations/{provider}/sync (no Idempotency-Key header)
SyncIntegration(company_id, provider) ==
    LET found == GetConnection(company_id, provider)
        year == reporting_year[company_id]
    IN IF found = {}
       THEN Failed(404)
       ELSE LET conn == CHOOSE c \in found : TRUE
                mock == MockActivities(activity_records, company_id, conn.id, year)
            IN IF Cardinality(mock) > 1
               \* scalar_one_or_none() raises MultipleResultsFound
               THEN Failed(500)
               ELSE /\ (mock = {} => Cardinality(activity_records) + 2 <= MaxObs)
                    /\ LET records == IF mock = {}
                                      THEN CreateMockCloudActivities(activity_records, company_id, conn.id, year)
                                      ELSE activity_records
                       IN \E pick \in Picks(BatchRecords(records, company_id, Jan1(year), Dec31(year)),
                                            emission_factors) :
                            LET o == Orchestrate(records, emission_estimates, emissions_summaries,
                                                 emission_factors, company_id, Jan1(year), Dec31(year),
                                                 FALSE, year, pick)
                            IN /\ activity_records' = records
                               /\ emission_estimates' = o.est
                               /\ emissions_summaries' = o.summ
                               /\ lastOp' = Op("sync_integration", <<company_id>>, year, o.count)
                    /\ UNCHANGED <<aux, sessions, resolve_call, calc, emission_factors, data_source_connections, reporting_year>>

\* POST /api/integrations/{provider}/estimate (no Idempotency-Key header)
EstimateIntegration(company_id, provider) ==
    /\ Cardinality(activity_records) < MaxObs
    /\ LET found == GetConnection(company_id, provider)
           conn == IF found = {} THEN Connection(company_id, provider) ELSE CHOOSE c \in found : TRUE
           year == reporting_year[company_id]
           activity == ProviderActivity(FreshId(Ids(activity_records)), company_id, conn.id,
                                        "cloud_compute_hours", 80000, "hours", year, "estimated",
                                        "AI estimated based on company size and industry benchmarks", 7000)
           records == activity_records \cup {activity}
       IN /\ \E pick \in Picks(BatchRecords(records, company_id, Jan1(year), Dec31(year)), emission_factors) :
                LET o == Orchestrate(records, emission_estimates, emissions_summaries,
                                     emission_factors, company_id, Jan1(year), Dec31(year),
                                     FALSE, year, pick)
                IN /\ activity_records' = records
                   /\ emission_estimates' = o.est
                   /\ emissions_summaries' = o.summ
                   /\ lastOp' = Op("estimate_integration", <<company_id>>, year, o.count)
          /\ data_source_connections' = data_source_connections \cup {conn}
    /\ UNCHANGED <<aux, sessions, resolve_call, calc, emission_factors, reporting_year>>

\* POST /api/dashboard/recompute?year= (no Idempotency-Key header)
RecomputeEmissions(company_id, year) ==
    /\ \E pick \in Picks(BatchRecords(activity_records, company_id, NULLDATE, NULLDATE), emission_factors) :
         LET o == Orchestrate(activity_records, emission_estimates, emissions_summaries,
                              emission_factors, company_id, NULLDATE, NULLDATE, TRUE, year, pick)
         IN /\ emission_estimates' = o.est
            /\ emissions_summaries' = o.summ
            /\ lastOp' = Op("recompute_emissions", <<company_id, year>>, year, o.count)
    /\ UNCHANGED <<aux, sessions, resolve_call, calc, emission_factors, activity_records, data_source_connections, reporting_year>>

\* POST /api/reports: the recompute and refresh it starts with
CreateReport(company_id, year) ==
    /\ \E pick \in Picks(BatchRecords(activity_records, company_id, NULLDATE, NULLDATE), emission_factors) :
         LET o == Orchestrate(activity_records, emission_estimates, emissions_summaries,
                              emission_factors, company_id, NULLDATE, NULLDATE, TRUE, year, pick)
         IN /\ emission_estimates' = o.est
            /\ emissions_summaries' = o.summ
            /\ lastOp' = Op("create_report", <<company_id, year>>, year, o.count)
    /\ UNCHANGED <<aux, sessions, resolve_call, calc, emission_factors, activity_records, data_source_connections, reporting_year>>

\* delete_company_data: the five DELETE statements
CompanyDataDeleted(company_id) ==
    /\ reports' = {r \in reports : r.company_id # company_id}
    /\ emissions_summaries' = Old({s \in emissions_summaries : s.company_id # company_id})
    /\ emission_estimates' = Old({e \in emission_estimates : e.company_id # company_id})
    /\ activity_records' = {r \in activity_records : r.company_id # company_id}
    /\ data_source_connections' = {c \in data_source_connections : c.company_id # company_id}
    /\ lastOp' = NoEngineCall

\* DELETE /api/company/data
DeleteCompanyData(company_id, confirm) ==
    IF ~confirm
    THEN Failed(400)
    ELSE /\ CompanyDataDeleted(company_id)
         /\ UNCHANGED <<clock, rate_limits, admitted_log, password_hash, password_reset_tokens, idempotency_keys, onboarding_state, response, sessions, inflight, resolve_call, calc, emission_factors, reporting_year>>

\* GET /api/integrations: adds the default cloud providers that are missing
ListIntegrations(company_id) ==
    LET existing_types == {c.source_type : c \in {x \in data_source_connections : x.company_id = company_id}}
    IN /\ data_source_connections' =
             data_source_connections
             \cup {Connection(company_id, p) : p \in DefaultProviders \ existing_types}
       /\ lastOp' = NoEngineCall
       /\ KeepEstimates
       /\ KeepSummaries
       /\ UNCHANGED <<aux, sessions, resolve_call, calc, emission_factors, activity_records, reporting_year>>

CsvUploads == {<<>>} \cup {<<r>> : r \in CsvRows}

Next ==
    \/ \E c \in Companies, req \in ManualRequests : CreateManualActivity(c, req)
    \/ \E c \in Companies, rows \in CsvUploads : UploadManualCsv(c, rows)
    \/ \E c \in Companies, p \in Providers : SyncIntegration(c, p)
    \/ \E c \in Companies, p \in Providers : EstimateIntegration(c, p)
    \/ \E c \in Companies, y \in Years : RecomputeEmissions(c, y)
    \/ \E c \in Companies, y \in Years : CreateReport(c, y)
    \/ \E c \in Companies, confirm \in BOOLEAN : DeleteCompanyData(c, confirm)
    \/ \E c \in Companies : ListIntegrations(c)

\* The application: every request handler that reads or writes the engine's tables.
Spec == Init /\ [][Next]_vars

-----------------------------------------------------------------------------
(* The engine called as a library (services/emissions.py): a caller adds    *)
(* activity records and calls the three functions in any order.            *)

\* db.add(activity); await db.flush()
AddActivityRecord(company_id, req) ==
    /\ Cardinality(activity_records) < MaxObs
    /\ activity_records' = activity_records
                           \cup {ManualActivityRecord(req, company_id, FreshId(Ids(activity_records)))}
    /\ lastOp' = NoEngineCall
    /\ KeepEstimates
    /\ KeepSummaries
    /\ UNCHANGED <<aux, sessions, resolve_call, calc, emission_factors, data_source_connections, reporting_year>>

\* Variant: the foreign key without ON DELETE CASCADE, the estimates stay.
DeleteWithoutCascade(record) ==
    /\ activity_records' = activity_records \ {record}
    /\ lastOp' = NoEngineCall
    /\ KeepEstimates
    /\ KeepSummaries
    /\ UNCHANGED <<aux, sessions, resolve_call, calc, emission_factors, data_source_connections, reporting_year>>

\* await session.delete(record): emission_estimates.activity_record_id is
\* declared ON DELETE CASCADE, so the record's estimates go with it.
DeleteActivityRecord(record) ==
    /\ activity_records' = activity_records \ {record}
    /\ emission_estimates' = Old({e \in emission_estimates : e.activity_record_id # record.id})
    /\ lastOp' = NoEngineCall
    /\ KeepSummaries
    /\ UNCHANGED <<aux, sessions, resolve_call, calc, emission_factors, data_source_connections, reporting_year>>

\* await ensure_estimates_for_activity(session, record, replace_existing)
CallEnsure(record, replace_existing) ==
    /\ \E fid \in ResolveRecord(emission_factors, record) :
         LET est == EnsureEstimatesForActivity(Old(emission_estimates), emission_factors, record,
                                               replace_existing, fid)
         IN /\ emission_estimates' = est
            /\ lastOp' = Op("ensure_estimates_for_activity", <<record.id, replace_existing>>, 0,
                            IF Inserted(est, record) THEN 1 ELSE 0)
    /\ KeepSummaries
    /\ UNCHANGED <<aux, sessions, resolve_call, calc, emission_factors, activity_records, data_source_connections, reporting_year>>

\* await compute_estimates_for_company(session, company_id, period_start,
\*                                     period_end, replace_existing)
CallCompute(company_id, period_start, period_end, replace_existing) ==
    /\ \E pick \in Picks(BatchRecords(activity_records, company_id, period_start, period_end),
                         emission_factors) :
         LET b == ComputeEstimatesForCompany(activity_records, emission_estimates, emission_factors,
                                             company_id, period_start, period_end, replace_existing, pick)
         IN /\ emission_estimates' = b.est
            /\ lastOp' = Op("compute_estimates_for_company",
                            <<company_id, period_start, period_end, replace_existing>>, 0, b.count)
    /\ KeepSummaries
    /\ UNCHANGED <<aux, sessions, resolve_call, calc, emission_factors, activity_records, data_source_connections, reporting_year>>

\* await refresh_emissions_summaries(session, company_id, reporting_year)
CallRefresh(company_id, year) ==
    /\ LET r == RefreshEmissionsSummaries(emissions_summaries, emission_estimates, company_id, year)
       IN /\ emissions_summaries' = r.summ
          /\ lastOp' = Op("refresh_emissions_summaries", <<company_id, year>>, year, r.count)
    /\ KeepEstimates
    /\ UNCHANGED <<aux, sessions, resolve_call, calc, emission_factors, activity_records, data_source_connections, reporting_year>>

Windows == {<<NULLDATE, NULLDATE>>, <<Jan1(2025), Dec31(2025)>>}

EngineNext ==
    \/ \E c \in Companies, req \in ManualRequests : AddActivityRecord(c, req)
    \/ \E r \in activity_records, replace_existing \in BOOLEAN : CallEnsure(r, replace_existing)
    \/ \E c \in Companies, w \in Windows, replace_existing \in BOOLEAN :
          CallCompute(c, w[1], w[2], replace_existing)
    \/ \E c \in Companies, y \in Years : CallRefresh(c, y)

EngineSpec == Init /\ [][EngineNext]_vars

-----------------------------------------------------------------------------
(* The aggregator over a store whose activity records come and go: records  *)
(* are added and deleted, estimates are created incrementally, and         *)
(* summaries are refreshed at any time, for any year.                      *)

AggregatorNext ==
    \/ \E c \in Companies, req \in ManualRequests : AddActivityRecord(c, req)
    \/ \E r \in activity_records : DeleteActivityRecord(r)
    \/ \E c \in Companies : CallCompute(c, NULLDATE, NULLDATE, FALSE)
    \/ \E c \in Companies, y \in Years : CallRefresh(c, y)

AggregatorSpec == Init /\ [][AggregatorNext]_vars

\* The aggregator over observations whose period may run across a year end.
CrossYearRequest == Request(3, "cloud", "cloud_compute_hours", "hours", 800, 0, 20241215, 20250115, "estimated", 9000)

CrossYearNext ==
    \/ \E c \in Companies, req \in ManualRequests \cup {CrossYearRequest} : AddActivityRecord(c, req)
    \/ \E c \in Companies : CallCompute(c, NULLDATE, NULLDATE, FALSE)
    \/ \E c \in Companies, y \in Years : CallRefresh(c, y)

CrossYearSpec == Init /\ [][CrossYearNext]_vars

-----------------------------------------------------------------------------
(* The resolver called alone (get_matching_factor): the reference table     *)
(* holds any few rows of a universe of factors, and a caller asks for any  *)
(* signature and period.                                                   *)

MaxFactors == 2            \* emission_factors rows of a resolver behaviour

\* Factors that agree with or differ from the compute-hours signature in one
\* field each, with open, half-open and bounded validity windows.
FactorUniverse ==
    {Factor(1, "cloud_compute_hours", 5, 0 - 5, "hours", 3, "cloud", NULLDATE, NULLDATE),
     Factor(2, "cloud_storage_gb_months", 2, 0 - 5, "GB-months", 3, "cloud", NULLDATE, NULLDATE),
     Factor(3, "cloud_compute_hours", 6, 0 - 5, "hours", 3, "cloud", 20240101, 20241231),
     Factor(4, "cloud_compute_hours", 7, 0 - 5, "hours", 3, "cloud", NULLDATE, NULLDATE),
     Factor(5, "cloud_compute_hours", 8, 0 - 5, "hours", 3, "cloud", 20250101, NULLDATE),
     Factor(6, "cloud_compute_hours", 9, 0 - 5, "hours", 3, "cloud", 20240601, 20241231),
     Factor(7, "cloud_compute_hours", 4, 0 - 5, "hours", 3, "cloud", NULLDATE, 20241231),
     Factor(8, "cloud_compute_hours", 3, 0 - 5, "hours", 3, NULLSTR, NULLDATE, NULLDATE),
     Factor(9, "cloud_compute_hours", 2, 0 - 5, "hours", 2, NULLSTR, NULLDATE, NULLDATE),
     Factor(10, "cloud_compute_hours", 1, 0 - 5, "hours", 2, "cloud", NULLDATE, NULLDATE)}

ResolverTables == {t \in SUBSET FactorUniverse : Cardinality(t) <= MaxFactors}

\* The arguments of a call.
ResolverSignatures ==
    {<<"cloud_compute_hours", "hours">>, <<"cloud_compute_hours", "GB-months">>,
     <<"cloud_storage_gb_months", "GB-months">>}
ResolverScopes == {2, 3}
ResolverCategories == {NULLSTR, "", "cloud", "travel"}
ResolverPeriods == {<<20240301, 20240331>>, <<20241215, 20250115>>, <<20250101, 20250128>>}

ResolverInit ==
    /\ emission_factors \in ResolverTables
    /\ activity_records = {}
    /\ emission_estimates = {}
    /\ emissions_summaries = {}
    /\ data_source_connections = {}
    /\ reporting_year = [c \in Companies |-> 2025]
    /\ lastOp = NoEngineCall
    /\ resolve_call = NoResolve
    /\ calc = NoCalc
    /\ sessions = [t \in Sessions |-> IdleSession]
    /\ AuxInit

\* await get_matching_factor(session, activity_type, unit, scope,
\*                           scope_3_category, period_start, period_end)
CallGetMatchingFactor(activity_type, unit, scope, scope_3_category, period_start, period_end) ==
    /\ \E fid \in GetMatchingFactor(emission_factors, activity_type, unit, scope,
                                    scope_3_category, period_start, period_end) :
         resolve_call' = [activity_type |-> activity_type, unit |-> unit, scope |-> scope,
                          scope_3_category |-> scope_3_category, period_start |-> period_start,
                          period_end |-> period_end, result |-> fid]
    /\ UNCHANGED <<aux, sessions, calc, emission_factors, activity_records, emission_estimates,
                   emissions_summaries, data_source_connections, reporting_year, lastOp>>

ResolverNext ==
    \E sig \in ResolverSignatures, scope \in ResolverScopes, cat \in ResolverCategories,
       period \in ResolverPeriods :
        CallGetMatchingFactor(sig[1], sig[2], scope, cat, period[1], period[2])

ResolverSpec == ResolverInit /\ [][ResolverNext]_vars

-----------------------------------------------------------------------------
(* The calculator's arithmetic alone: the product of a quantity and a       *)
(* factor value, quantized.                                                *)

MaxCoefficient == 5        \* largest coefficient of a quantity or factor value

\* The scale of the Numeric(18, 6) columns quantity and factor_value.
ScaleDigits == 6

Quantities == [c : (0 - MaxCoefficient)..MaxCoefficient, e : (0 - ScaleDigits)..0]
FactorValues == [c : 1..MaxCoefficient, e : (0 - ScaleDigits)..0]

CalcInit ==
    /\ emission_factors = {}
    /\ activity_records = {}
    /\ emission_estimates = {}
    /\ emissions_summaries = {}
    /\ data_source_connections = {}
    /\ reporting_year = [c \in Companies |-> 2025]
    /\ lastOp = NoEngineCall
    /\ resolve_call = NoResolve
    /\ calc = NoCalc
    /\ sessions = [t \in Sessions |-> IdleSession]
    /\ AuxInit

\* emissions = (quantity * factor_value).quantize(Decimal("0.000001"))
Price(quantity, factor_value) ==
    /\ calc' = [quantity |-> quantity, factor_value |-> factor_value,
                emissions_kg_co2e |-> EmissionsKgCo2e(quantity, factor_value)]
    /\ UNCHANGED <<aux, sessions, resolve_call, emission_factors, activity_records, emission_estimates,
                   emissions_summaries, data_source_connections, reporting_year, lastOp>>

CalcNext == \E quantity \in Quantities, factor_value \in FactorValues : Price(quantity, factor_value)

CalcSpec == CalcInit /\ [][CalcNext]_vars

-----------------------------------------------------------------------------
(* The engine over a reference table that is revised between calls: the     *)
(* rows of emission_factors are inserted by the seed (dev_seed,             *)
(* scripts/seed_dev.py) and maintained outside the request handlers.       *)

\* The seeded compute factor with a revised value.
FactorRevised == Factor(1, "cloud_compute_hours", 9, 0 - 5, "hours", 3, "cloud", NULLDATE, NULLDATE)

\* The states of the reference table: empty, seeded, seeded with the
\* compute factor revised.
RevisedTables == {{}, SeedFactors, (SeedFactors \ {FactorById(SeedFactors, 1)}) \cup {FactorRevised}}

\* The reference table becomes `table`.  emission_factor_id is declared
\* ON DELETE RESTRICT: a factor that an estimate references stays.
ReviseFactors(table) ==
    /\ table # emission_factors
    /\ \A e \in emission_estimates : \E f \in table : f.id = e.emission_factor_id
    /\ emission_factors' = table
    /\ lastOp' = NoEngineCall
    /\ KeepEstimates
    /\ KeepSummaries
    /\ UNCHANGED <<aux, sessions, resolve_call, calc, activity_records, data_source_connections, reporting_year>>

SnapshotInit ==
    /\ emission_factors = {}
    /\ activity_records = {}
    /\ emission_estimates = {}
    /\ emissions_summaries = {}
    /\ data_source_connections = {}
    /\ reporting_year = [c \in Companies |-> 2025]
    /\ lastOp = NoEngineCall
    /\ resolve_call = NoResolve
    /\ calc = NoCalc
    /\ sessions = [t \in Sessions |-> IdleSession]
    /\ AuxInit

SnapshotNext ==
    \/ \E c \in Companies, req \in ManualRequests : AddActivityRecord(c, req)
    \/ \E c \in Companies, replace_existing \in BOOLEAN : CallCompute(c, NULLDATE, NULLDATE, replace_existing)
    \/ \E table \in RevisedTables : ReviseFactors(table)

SnapshotSpec == SnapshotInit /\ [][SnapshotNext]_vars

-----------------------------------------------------------------------------
(* The in-memory rate limiter of the authentication endpoints: rate_limit   *)
(* called for a key as the clock advances.                                  *)

RATE_LIMIT_WINDOW == 60
RATE_LIMIT_MAX == 10

\* settings.rate_limit_enabled
RATE_LIMIT_ENABLED == TRUE

\* The latest reading of the clock, and the steps by which it advances.
MaxClock == 61
Ticks == {30, 31}

RECURSIVE PurgeAtWindow(_, _)
\* Variant: an entry exactly one window old is dropped as well.
PurgeAtWindow(q, now) ==
    IF q # <<>> /\ now - Head(q) >= RATE_LIMIT_WINDOW THEN PurgeAtWindow(Tail(q), now) ELSE q

RECURSIVE Purge(_, _)
\* while q and now - q[0] > RATE_LIMIT_WINDOW: q.popleft()
Purge(q, now) ==
    IF q # <<>> /\ now - Head(q) > RATE_LIMIT_WINDOW THEN Purge(Tail(q), now) ELSE q

\* rate_limit(request, action) for the deque `q` of the key at time `now`:
\* the deque afterwards and whether the request goes on (no 429 raised).
RateLimit(q, now) ==
    IF ~RATE_LIMIT_ENABLED THEN [q |-> q, admitted |-> TRUE, recorded |-> FALSE]
    ELSE LET kept == Purge(q, now)
         IN IF Len(kept) >= RATE_LIMIT_MAX
            THEN [q |-> kept, admitted |-> FALSE, recorded |-> FALSE]
            ELSE [q |-> Append(kept, now), admitted |-> TRUE, recorded |-> TRUE]

\* Everything but the clock, the limiter, its log and the response.
RestUnchanged == UNCHANGED <<emission_factors, activity_records, emission_estimates, emissions_summaries, data_source_connections, reporting_year, lastOp, resolve_call, calc, sessions, inflight, password_hash, password_reset_tokens, reports, idempotency_keys, onboarding_state>>

\* time.time() and datetime.now() have advanced by d seconds.
Advance(d) ==
    /\ clock' = clock + d
    /\ UNCHANGED <<rate_limits, admitted_log, response>>
    /\ RestUnchanged

Tick(d) ==
    /\ clock + d <= MaxClock
    /\ Advance(d)

\* The limiter's state after rate_limit returned r for the key.
Limited(key, r) ==
    /\ rate_limits' = [rate_limits EXCEPT ![key] = r.q]
    /\ admitted_log' = [admitted_log EXCEPT
                          ![key] = IF r.recorded THEN Append(@, clock) ELSE @]

\* rate_limit(http_request, action) for the request's key
CallRateLimit(key) ==
    /\ LET r == RateLimit(rate_limits[key], clock)
       IN /\ Limited(key, r)
          /\ response' = [endpoint |-> "rate_limit", user |-> "",
                          status |-> IF r.admitted THEN 200 ELSE 429,
                          body |-> <<key, clock>>]
    /\ UNCHANGED clock
    /\ RestUnchanged

\* One client sends requests without bound, every other client at most
\* MaxQuiet admitted ones.
MaxQuiet == 2
BurstKey == <<"10.0.0.1", "password_reset">>

RateNext ==
    \/ \E d \in Ticks : Tick(d)
    \/ \E key \in RateKeys :
          /\ key = BurstKey \/ Len(admitted_log[key]) < MaxQuiet
          /\ CallRateLimit(key)

RateSpec == Init /\ [][RateNext]_vars

-----------------------------------------------------------------------------
(* Password reset: /password/forgot issues a token, /password/reset         *)
(* redeems it.                                                              *)

\* _reset_expires_at: timedelta(minutes=45), in seconds
RESET_TOKEN_LIFETIME == 45 * 60

\* The clock reaches the token's expiry time and the second after it.
MaxAuthClock == 2701
AuthTicks == {RESET_TOKEN_LIFETIME, RESET_TOKEN_LIFETIME + 1}

\* used_at of a token that has not been redeemed
NOTUSED == 0 - 1

\* request.email of /password/forgot: a registered user or nobody
Emails == {"owner", "nope@example.com"}
NewPasswords == {"new-password-123"}

\* The token of a presented value (scalar_one_or_none): a set of at most one.
TokenRecords(token) == {r \in password_reset_tokens : r.token = token}

\* get_password_hash: a salted hash, different on every call.
get_password_hash(password, previous) == <<password, previous[2] + 1>>

AuthTick(d) ==
    /\ clock + d <= MaxAuthClock
    /\ Advance(d)

\* Everything the two endpoints leave alone.
AuthUnchanged == UNCHANGED <<clock, emission_factors, activity_records, emission_estimates, emissions_summaries, data_source_connections, reporting_year, lastOp, resolve_call, calc, sessions, inflight, reports, idempotency_keys, onboarding_state>>

\* POST /api/auth/password/forgot
PasswordForgot(email) ==
    LET key == <<"10.0.0.1", "password_forgot">>
        r == RateLimit(rate_limits[key], clock)
        raw_token == Cardinality(password_reset_tokens) + 1
    IN /\ Limited(key, r)
       /\ IF ~r.admitted
          THEN /\ response' = [endpoint |-> "password_forgot", user |-> "", status |-> 429, body |-> <<>>]
               /\ UNCHANGED password_reset_tokens
          ELSE /\ response' = [endpoint |-> "password_forgot", user |-> "", status |-> 200, body |-> <<>>]
               /\ password_reset_tokens' =
                    IF email \in Users
                    THEN password_reset_tokens \cup
                           {[token |-> raw_token, user |-> email,
                             expires_at |-> clock + RESET_TOKEN_LIFETIME, used_at |-> NOTUSED]}
                    ELSE password_reset_tokens
       /\ UNCHANGED password_hash
       /\ AuthUnchanged

\* Variant: a token that was redeemed before is accepted again.
PasswordResetIgnoringUse(token, new_password) ==
    LET key == <<"10.0.0.1", "password_reset">>
        r == RateLimit(rate_limits[key], clock)
        records == TokenRecords(token)
    IN /\ Limited(key, r)
       /\ IF ~r.admitted
          THEN /\ response' = [endpoint |-> "password_reset", user |-> "", status |-> 429, body |-> <<token>>]
               /\ UNCHANGED <<password_hash, password_reset_tokens>>
          ELSE IF records = {} \/ (\E record \in records : record.expires_at < clock)
          THEN /\ response' = [endpoint |-> "password_reset", user |-> "", status |-> 400, body |-> <<token>>]
               /\ UNCHANGED <<password_hash, password_reset_tokens>>
          ELSE \E record \in records :
               /\ password_hash' = [password_hash EXCEPT ![record.user] = get_password_hash(new_password, @)]
               /\ password_reset_tokens' = (password_reset_tokens \ {record}) \cup {[record EXCEPT !.used_at = clock]}
               /\ response' = [endpoint |-> "password_reset", user |-> "", status |-> 200, body |-> <<token>>]
       /\ AuthUnchanged

\* POST /api/auth/password/reset
PasswordReset(token, new_password) ==
    LET key == <<"10.0.0.1", "password_reset">>
        r == RateLimit(rate_limits[key], clock)
        records == TokenRecords(token)
    IN /\ Limited(key, r)
       /\ IF ~r.admitted
          THEN /\ response' = [endpoint |-> "password_reset", user |-> "", status |-> 429, body |-> <<token>>]
               /\ UNCHANGED <<password_hash, password_reset_tokens>>
          ELSE IF records = {} \/ (\E record \in records : record.used_at # NOTUSED \/ record.expires_at < clock)
          THEN /\ response' = [endpoint |-> "password_reset", user |-> "", status |-> 400, body |-> <<token>>]
               /\ UNCHANGED <<password_hash, password_reset_tokens>>
          ELSE \E record \in records :
               /\ password_hash' = [password_hash EXCEPT ![record.user] = get_password_hash(new_password, @)]
               /\ password_reset_tokens' = (password_reset_tokens \ {record}) \cup {[record EXCEPT !.used_at = clock]}
               /\ response' = [endpoint |-> "password_reset", user |-> "", status |-> 200, body |-> <<token>>]
       /\ AuthUnchanged

\* Tokens a client may present: 0 was never issued.
PresentedTokens == 0..MaxQuiet

AuthNext ==
    \/ \E d \in AuthTicks : AuthTick(d)
    \/ \E email \in Emails :
          /\ Len(admitted_log[<<"10.0.0.1", "password_forgot">>]) < MaxQuiet
          /\ PasswordForgot(email)
    \/ \E token \in PresentedTokens, new_password \in NewPasswords : PasswordReset(token, new_password)

AuthSpec == Init /\ [][AuthNext]_vars

-----------------------------------------------------------------------------
(* Reports: create, publish, soft delete, detail and the public share link, *)
(* with the Idempotency-Key header of the two POST endpoints.               *)

\* reports rows a behaviour may hold
MaxReports == 2

NOTOKEN == 0               \* None / SQL NULL in shareable_token
NOKEY == ""                \* no Idempotency-Key header

\* user.company_id: the demo user and the owner work on the modelled
\* company, the third user belongs to another one.
CompanyOf(user) == IF user = "rival" THEN "globex" ELSE "acme"

\* company.plan in {starter, pro} and billing_status in {active, trialing}
PaidCompanies == {"acme", "globex"}

\* require_paid_plan: the status it raises, 0 when it lets the caller pass
RequirePaidPlan(user) ==
    IF IsDemo(user) \/ CompanyOf(user) \notin PaidCompanies THEN 402 ELSE 0

\* require_not_demo_user
RequireNotDemoUser(user) == IF IsDemo(user) THEN 403 ELSE 0

\* The dependencies PaidCompany and NonDemoUser in the order they are declared.
PaidThenNonDemo(user) ==
    IF RequirePaidPlan(user) # 0 THEN RequirePaidPlan(user) ELSE RequireNotDemoUser(user)

Respond(endpoint, user, status, body) ==
    response' = [endpoint |-> endpoint, user |-> user, status |-> status, body |-> body]

\* What a handler of the reports router leaves alone besides the tables it names.
ReportsRest == UNCHANGED <<clock, rate_limits, admitted_log, password_hash, password_reset_tokens, onboarding_state, sessions, inflight, resolve_call, calc, emission_factors, activity_records, data_source_connections, reporting_year>>

\* A handler that does not touch the engine's tables.
NoEngineWork ==
    /\ lastOp' = NoEngineCall
    /\ KeepEstimates
    /\ KeepSummaries
    /\ ReportsRest

\* select(Report).where(id, company_id, deleted_at IS NULL)
LiveReport(company_id, report_id) ==
    {r \in reports : r.id = report_id /\ r.company_id = company_id /\ ~r.deleted}

\* get_idempotency_record
GetIdempotencyRecord(company_id, endpoint, key) ==
    {k \in idempotency_keys : k.company_id = company_id /\ k.endpoint = endpoint /\ k.idempotency_key = key}

\* store_idempotency_record: the row it adds
IdempotencyRow(company_id, endpoint, key, request_hash, response_status, response_body) ==
    [company_id |-> company_id, endpoint |-> endpoint, idempotency_key |-> key,
     request_hash |-> request_hash, response_status |-> response_status,
     response_body |-> response_body]

\* secrets.token_urlsafe(32): a value no report carries yet
FreshToken == FreshId({r.shareable_token : r \in reports})

CreateEndpoint == <<"POST /api/reports", 0>>
PublishEndpoint(report_id) == <<"POST /api/reports/{report_id}/publish", report_id>>

\* POST /api/reports
create_report(user, title, year, key) ==
    LET company_id == CompanyOf(user)
        existing == GetIdempotencyRecord(company_id, CreateEndpoint, key)
    IN IF PaidThenNonDemo(user) # 0
       THEN /\ Respond("create_report", user, PaidThenNonDemo(user), <<>>)
            /\ UNCHANGED <<reports, idempotency_keys>>
            /\ NoEngineWork
       ELSE IF key # NOKEY /\ existing # {}
       THEN /\ \E e \in existing :
                 IF e.request_hash # <<title, year>>
                 THEN Respond("create_report", user, 409, <<>>)
                 ELSE Respond("create_report", user, e.response_status, e.response_body)
            /\ UNCHANGED <<reports, idempotency_keys>>
            /\ NoEngineWork
       ELSE /\ Cardinality(reports) < MaxReports
            /\ \E pick \in Picks(BatchRecords(activity_records, company_id, NULLDATE, NULLDATE), emission_factors) :
                 LET o == Orchestrate(activity_records, emission_estimates, emissions_summaries,
                                      emission_factors, company_id, NULLDATE, NULLDATE, TRUE, year, pick)
                 IN /\ emission_estimates' = o.est
                    /\ emissions_summaries' = o.summ
                    /\ lastOp' = Op("create_report", <<company_id, year>>, year, o.count)
            /\ LET report == [id |-> FreshId(Ids(reports)), company_id |-> company_id,
                              status |-> "draft", shareable_token |-> NOTOKEN,
                              deleted |-> FALSE]
                   body == <<report.id, "draft", NOTOKEN>>
               IN /\ reports' = reports \cup {report}
                  /\ idempotency_keys' =
                       IF key # NOKEY
                       THEN idempotency_keys \cup {IdempotencyRow(company_id, CreateEndpoint, key, <<title, year>>, 200, body)}
                       ELSE idempotency_keys
                  /\ Respond("create_report", user, 200, body)
            /\ ReportsRest

\* GET /api/reports/{report_id}
get_report(user, report_id) ==
    LET found == LiveReport(CompanyOf(user), report_id)
    IN /\ IF RequirePaidPlan(user) # 0
          THEN Respond("get_report", user, RequirePaidPlan(user), <<report_id>>)
          ELSE IF found = {}
          THEN Respond("get_report", user, 404, <<report_id>>)
          ELSE \E report \in found :
                 IF report.status # "draft"
                 THEN Respond("get_report", user, 400, <<report_id>>)
                 ELSE Respond("get_report", user, 200, <<report.id, report.status, report.shareable_token>>)
       /\ UNCHANGED <<reports, idempotency_keys>>
       /\ NoEngineWork

\* Variant: publishing again issues a new token.
PublishAgain(user, report_id, key) ==
    LET company_id == CompanyOf(user)
        found == LiveReport(company_id, report_id)
    IN /\ IF PaidThenNonDemo(user) # 0
          THEN /\ Respond("publish_report", user, PaidThenNonDemo(user), <<report_id>>)
               /\ UNCHANGED <<reports, idempotency_keys>>
          ELSE IF found = {}
          THEN /\ Respond("publish_report", user, 404, <<report_id>>)
               /\ UNCHANGED <<reports, idempotency_keys>>
          ELSE \E report \in found :
                 LET body == <<report_id, "published", FreshToken>>
                 IN /\ reports' = (reports \ {report}) \cup
                                    {[report EXCEPT !.status = "published", !.shareable_token = FreshToken]}
                    /\ UNCHANGED idempotency_keys
                    /\ Respond("publish_report", user, 200, body)
       /\ NoEngineWork

\* POST /api/reports/{report_id}/publish
publish_report(user, report_id, key) ==
    LET company_id == CompanyOf(user)
        endpoint == PublishEndpoint(report_id)
        existing == GetIdempotencyRecord(company_id, endpoint, key)
        found == LiveReport(company_id, report_id)
    IN /\ IF PaidThenNonDemo(user) # 0
          THEN /\ Respond("publish_report", user, PaidThenNonDemo(user), <<report_id>>)
               /\ UNCHANGED <<reports, idempotency_keys>>
          ELSE IF key # NOKEY /\ existing # {}
          THEN /\ \E e \in existing : Respond("publish_report", user, e.response_status, e.response_body)
               /\ UNCHANGED <<reports, idempotency_keys>>
          ELSE IF found = {}
          THEN /\ Respond("publish_report", user, 404, <<report_id>>)
               /\ UNCHANGED <<reports, idempotency_keys>>
          ELSE \E report \in found :
                 IF report.status = "published"
                 THEN /\ Respond("publish_report", user, 400, <<report_id>>)
                      /\ UNCHANGED <<reports, idempotency_keys>>
                 ELSE LET body == <<report_id, "published", FreshToken>>
                      IN /\ reports' = (reports \ {report}) \cup
                                         {[report EXCEPT !.status = "published", !.shareable_token = FreshToken]}
                         /\ idempotency_keys' =
                              IF key # NOKEY
                              THEN idempotency_keys \cup {IdempotencyRow(company_id, endpoint, key, <<report_id>>, 200, body)}
                              ELSE idempotency_keys
                         /\ Respond("publish_report", user, 200, body)
       /\ NoEngineWork

\* DELETE /api/reports/{report_id}
delete_report(user, report_id) ==
    LET found == LiveReport(CompanyOf(user), report_id)
    IN /\ IF PaidThenNonDemo(user) # 0
          THEN /\ Respond("delete_report", user, PaidThenNonDemo(user), <<report_id>>)
               /\ UNCHANGED reports
          ELSE IF found = {}
          THEN /\ Respond("delete_report", user, 404, <<report_id>>)
               /\ UNCHANGED reports
          ELSE \E report \in found :
                 /\ reports' = (reports \ {report}) \cup {[report EXCEPT !.deleted = TRUE]}
                 /\ Respond("delete_report", user, 200, <<report_id>>)
       /\ UNCHANGED idempotency_keys
       /\ NoEngineWork

\* GET /api/reports/r/{share_token}
get_public_report(share_token) ==
    LET found == {r \in reports : r.shareable_token = share_token /\ r.status = "published" /\ ~r.deleted}
    IN /\ IF found = {}
          THEN Respond("get_public_report", "", 404, <<share_token>>)
          ELSE \E report \in found :
                 Respond("get_public_report", "", 200, <<share_token, report.id>>)
       /\ UNCHANGED <<reports, idempotency_keys>>
       /\ NoEngineWork

\* Requests: a report id or share token that does not exist yet is the
\* missing one; the user of the other company only creates drafts.
ReportTitles == {"Test Report 2025", "Board copy"}
ReportYears == {2025}
ReportIds == 1..MaxReports
ShareTokens == 1..MaxReports
IdempotencyKeys == {NOKEY, "retry-1"}
Callers == {"owner", "demo"}

ReportNext ==
    \/ \E user \in Callers, title \in ReportTitles, year \in ReportYears, key \in IdempotencyKeys :
          create_report(user, title, year, key)
    \/ \E title \in ReportTitles, year \in ReportYears : create_report("rival", title, year, NOKEY)
    \/ \E user \in Callers, report_id \in ReportIds : get_report(user, report_id)
    \/ \E user \in Callers, report_id \in ReportIds, key \in IdempotencyKeys :
          publish_report(user, report_id, key)
    \/ \E user \in Callers, report_id \in ReportIds : delete_report(user, report_id)
    \/ \E share_token \in ShareTokens : get_public_report(share_token)

ReportSpec == Init /\ [][ReportNext]_vars

-----------------------------------------------------------------------------
(* Keyed requests in flight: a handler commits its work, then stores the    *)
(* idempotency record and commits again; other requests run in between.     *)

\* The request of session t has committed its work and holds its response.
Working(t, name, user, endpoint, key, request_hash, body) ==
    inflight' = [inflight EXCEPT ![t] = [pc |-> "store", name |-> name, user |-> user, endpoint |-> endpoint,
                                          key |-> key, request_hash |-> request_hash, body |-> body]]

\* POST /api/reports with an Idempotency-Key, up to its first commit
begin_create_report(t, user, title, year, key) ==
    LET company_id == CompanyOf(user)
        existing == GetIdempotencyRecord(company_id, CreateEndpoint, key)
    IN /\ inflight[t].pc = "idle"
       /\ key # NOKEY
       /\ IF PaidThenNonDemo(user) # 0
          THEN /\ Respond("create_report", user, PaidThenNonDemo(user), <<>>)
               /\ UNCHANGED <<reports, inflight>>
               /\ NoEngineWork
          ELSE IF existing # {}
          THEN /\ \E e \in existing :
                    IF e.request_hash # <<title, year>>
                    THEN Respond("create_report", user, 409, <<>>)
                    ELSE Respond("create_report", user, e.response_status, e.response_body)
               /\ UNCHANGED <<reports, inflight>>
               /\ NoEngineWork
          ELSE /\ Cardinality(reports) < MaxReports
               /\ \E pick \in Picks(BatchRecords(activity_records, company_id, NULLDATE, NULLDATE), emission_factors) :
                    LET o == Orchestrate(activity_records, emission_estimates, emissions_summaries,
                                         emission_factors, company_id, NULLDATE, NULLDATE, TRUE, year, pick)
                    IN /\ emission_estimates' = o.est
                       /\ emissions_summaries' = o.summ
                       /\ lastOp' = Op("create_report", <<company_id, year>>, year, o.count)
               /\ LET report == [id |-> FreshId(Ids(reports)), company_id |-> company_id,
                                 status |-> "draft", shareable_token |-> NOTOKEN, deleted |-> FALSE]
                  IN /\ reports' = reports \cup {report}
                     /\ Working(t, "create_report", user, CreateEndpoint, key, <<title, year>>,
                                <<report.id, "draft", NOTOKEN>>)
               /\ UNCHANGED <<response, clock, rate_limits, admitted_log, password_hash, password_reset_tokens, onboarding_state, sessions, resolve_call, calc, emission_factors, activity_records, data_source_connections, reporting_year>>
       /\ UNCHANGED idempotency_keys

\* POST /api/reports/{report_id}/publish with an Idempotency-Key, up to its first commit
begin_publish_report(t, user, report_id, key) ==
    LET company_id == CompanyOf(user)
        endpoint == PublishEndpoint(report_id)
        existing == GetIdempotencyRecord(company_id, endpoint, key)
        found == LiveReport(company_id, report_id)
    IN /\ inflight[t].pc = "idle"
       /\ key # NOKEY
       /\ IF PaidThenNonDemo(user) # 0
          THEN /\ Respond("publish_report", user, PaidThenNonDemo(user), <<report_id>>)
               /\ UNCHANGED <<reports, inflight>>
          ELSE IF existing # {}
          THEN /\ \E e \in existing : Respond("publish_report", user, e.response_status, e.response_body)
               /\ UNCHANGED <<reports, inflight>>
          ELSE IF found = {}
          THEN /\ Respond("publish_report", user, 404, <<report_id>>)
               /\ UNCHANGED <<reports, inflight>>
          ELSE \E report \in found :
                 IF report.status = "published"
                 THEN /\ Respond("publish_report", user, 400, <<report_id>>)
                      /\ UNCHANGED <<reports, inflight>>
                 ELSE /\ reports' = (reports \ {report}) \cup
                                      {[report EXCEPT !.status = "published", !.shareable_token = FreshToken]}
                      /\ Working(t, "publish_report", user, endpoint, key, <<report_id>>,
                                 <<report_id, "published", FreshToken>>)
                      /\ UNCHANGED response
       /\ UNCHANGED idempotency_keys
       /\ lastOp' = NoEngineCall
       /\ KeepEstimates
       /\ KeepSummaries
       /\ UNCHANGED <<clock, rate_limits, admitted_log, password_hash, password_reset_tokens, onboarding_state, sessions, resolve_call, calc, emission_factors, activity_records, data_source_connections, reporting_year>>

\* store_idempotency_record, the second commit and the response; the
\* INSERT fails on uq_idempotency_key when the key's row exists by now.
store_idempotency_record(t) ==
    LET req == inflight[t]
        company_id == CompanyOf(req.user)
    IN /\ req.pc = "store"
       /\ IF GetIdempotencyRecord(company_id, req.endpoint, req.key) # {}
          THEN /\ Respond(req.name, req.user, 500, <<>>)
               /\ UNCHANGED idempotency_keys
          ELSE /\ idempotency_keys' = idempotency_keys \cup
                     {IdempotencyRow(company_id, req.endpoint, req.key, req.request_hash, 200, req.body)}
               /\ Respond(req.name, req.user, 200, req.body)
       /\ inflight' = [inflight EXCEPT ![t] = NoRequest]
       /\ UNCHANGED reports
       /\ lastOp' = NoEngineCall
       /\ KeepEstimates
       /\ KeepSummaries
       /\ UNCHANGED <<clock, rate_limits, admitted_log, password_hash, password_reset_tokens, onboarding_state, sessions, resolve_call, calc, emission_factors, activity_records, data_source_connections, reporting_year>>

\* The attempt ends after its first commit: the worker or the connection
\* is gone before the record is stored, and the client gets no response.
Interrupted(t) ==
    /\ inflight[t].pc = "store"
    /\ inflight' = [inflight EXCEPT ![t] = NoRequest]
    /\ lastOp' = NoEngineCall
    /\ KeepEstimates
    /\ KeepSummaries
    /\ UNCHANGED <<reports, idempotency_keys, response, clock, rate_limits, admitted_log, password_hash, password_reset_tokens, onboarding_state, sessions, resolve_call, calc, emission_factors, activity_records, data_source_connections, reporting_year>>

\* The retried requests: one creation and, per report, one publication,
\* each always with the same key, company and payload.
RetryKey == "retry-1"

IdempotencyNext ==
    \/ \E t \in Sessions : begin_create_report(t, "owner", "Test Report 2025", 2025, RetryKey)
    \/ \E t \in Sessions, report_id \in Ids(reports) : begin_publish_report(t, "owner", report_id, RetryKey)
    \/ \E t \in Sessions : store_idempotency_record(t)
    \/ \E t \in Sessions : Interrupted(t)

IdempotencySpec == Init /\ [][IdempotencyNext]_vars

-----------------------------------------------------------------------------
(* Provider sync with its response, among the other requests of the         *)
(* application.                                                             *)

\* POST /api/integrations/{provider}/sync (no Idempotency-Key header), with
\* its caller and its response; the body is activities_created.
sync_integration(user, provider) ==
    LET company_id == CompanyOf(user)
        found == GetConnection(company_id, provider)
        year == reporting_year[company_id]
        conn == CHOOSE c \in found : TRUE
        mock == MockActivities(activity_records, company_id, conn.id, year)
        Refused(status) ==
            /\ Respond("sync_integration", user, status, <<>>)
            /\ lastOp' = NoEngineCall
            /\ KeepEstimates
            /\ KeepSummaries
            /\ UNCHANGED activity_records
    IN /\ IF RequireNotDemoUser(user) # 0
          THEN Refused(RequireNotDemoUser(user))
          ELSE IF found = {}
          THEN Refused(404)
          ELSE IF Cardinality(mock) > 1
          \* scalar_one_or_none() raises MultipleResultsFound
          THEN Refused(500)
          ELSE /\ (mock = {} => Cardinality(activity_records) + 2 <= MaxObs)
               /\ LET records == IF mock = {}
                                 THEN CreateMockCloudActivities(activity_records, company_id, conn.id, year)
                                 ELSE activity_records
                  IN \E pick \in Picks(BatchRecords(records, company_id, Jan1(year), Dec31(year)),
                                       emission_factors) :
                       LET o == Orchestrate(records, emission_estimates, emissions_summaries,
                                            emission_factors, company_id, Jan1(year), Dec31(year),
                                            FALSE, year, pick)
                       IN /\ activity_records' = records
                          /\ emission_estimates' = o.est
                          /\ emissions_summaries' = o.summ
                          /\ lastOp' = Op("sync_integration", <<company_id>>, year, o.count)
                          /\ Respond("sync_integration", user, 200, <<Cardinality(records \ activity_records)>>)
       /\ UNCHANGED <<clock, rate_limits, admitted_log, inflight, password_hash, password_reset_tokens, reports, idempotency_keys, onboarding_state, sessions, resolve_call, calc, emission_factors, data_source_connections, reporting_year>>

SyncNext ==
    \/ \E user \in Callers, p \in Providers : sync_integration(user, p)
    \/ \E c \in Companies, p \in Providers : EstimateIntegration(c, p)
    \/ \E c \in Companies, confirm \in BOOLEAN : DeleteCompanyData(c, confirm)
    \/ \E c \in Companies : ListIntegrations(c)

SyncSpec == Init /\ [][SyncNext]_vars

-----------------------------------------------------------------------------
(* The demo account: the endpoints that write company data, called by the   *)
(* demo user and by an ordinary user of the same company.                   *)

\* The endpoints that depend on NonDemoUser (require_not_demo_user).
NonDemoEndpoints == {"sync_integration", "estimate_integration", "create_manual_activity", "upload_manual_csv", "recompute_emissions"}

\* The fields of OnboardingUpdateRequest the behaviours set.
OnboardingSteps == {"connect_aws", "create_report"}

\* What the company and onboarding routers leave alone.
CompanyRest == UNCHANGED <<clock, rate_limits, admitted_log, password_hash, password_reset_tokens, idempotency_keys, sessions, inflight, resolve_call, calc, emission_factors>>

\* A request of the demo user to an endpoint that depends on NonDemoUser.
RejectDemo(endpoint) ==
    /\ RequireNotDemoUser("demo") # 0
    /\ Respond(endpoint, "demo", RequireNotDemoUser("demo"), <<>>)
    /\ lastOp' = NoEngineCall
    /\ KeepEstimates
    /\ KeepSummaries
    /\ UNCHANGED <<reports, onboarding_state, activity_records, data_source_connections, reporting_year>>
    /\ CompanyRest

\* PUT /api/company with reporting_year set
update_company(user, year) ==
    /\ reporting_year' = [reporting_year EXCEPT ![CompanyOf(user)] = year]
    /\ Respond("update_company", user, 200, <<year>>)
    /\ lastOp' = NoEngineCall
    /\ KeepEstimates
    /\ KeepSummaries
    /\ UNCHANGED <<reports, onboarding_state, activity_records, data_source_connections>>
    /\ CompanyRest

\* PUT /api/onboarding with one step set to `done`
update_onboarding(user, step, done) ==
    /\ onboarding_state' = [onboarding_state EXCEPT
                              ![CompanyOf(user)] = IF done THEN @ \cup {step} ELSE @ \ {step}]
    /\ Respond("update_onboarding", user, 200, <<step, done>>)
    /\ lastOp' = NoEngineCall
    /\ KeepEstimates
    /\ KeepSummaries
    /\ UNCHANGED <<reports, activity_records, data_source_connections, reporting_year>>
    /\ CompanyRest

\* DELETE /api/company/data, with its caller
delete_company_data(user, confirm) ==
    /\ IF ~confirm
       THEN /\ Respond("delete_company_data", user, 400, <<>>)
            /\ lastOp' = NoEngineCall
            /\ KeepEstimates
            /\ KeepSummaries
            /\ UNCHANGED <<reports, activity_records, data_source_connections>>
       ELSE /\ Respond("delete_company_data", user, 200, <<>>)
            /\ CompanyDataDeleted(CompanyOf(user))
    /\ UNCHANGED <<onboarding_state, reporting_year>>
    /\ CompanyRest

DemoNext ==
    \/ \E c \in Companies, req \in ManualRequests : CreateManualActivity(c, req)
    \/ \E endpoint \in NonDemoEndpoints : RejectDemo(endpoint)
    \/ \E user \in Callers, year \in Years : update_company(user, year)
    \/ \E user \in Callers, step \in OnboardingSteps, done \in BOOLEAN : update_onboarding(user, step, done)
    \/ \E user \in Callers, confirm \in BOOLEAN : delete_company_data(user, confirm)

DemoSpec == Init /\ [][DemoNext]_vars

-----------------------------------------------------------------------------
(* Intake: the two endpoints through which a client sends observations,     *)
(* given well-formed and malformed bodies.                                  *)

\* Bodies that ManualActivityRequest and CsvRowSchema accept (the fields
\* have the declared types) with a negative quantity, and with a period
\* that ends before it starts.
MalformedRequests ==
    {Request(3, "cloud", "cloud_compute_hours", "hours", 0 - 800, 0, 20250101, 20250128, "manual", NOSCORE),
     Request(3, "cloud", "cloud_storage_gb_months", "GB-months", 5000, 0, 20250228, 20250201, "manual", NOSCORE)}

IntakeNext ==
    \/ \E c \in Companies, req \in ManualRequests \cup MalformedRequests : CreateManualActivity(c, req)
    \/ \E c \in Companies, rows \in CsvUploads \cup {<<r>> : r \in MalformedRequests} : UploadManualCsv(c, rows)

\* Manual entry and CSV import.
IntakeSpec == Init /\ [][IntakeNext]_vars

-----------------------------------------------------------------------------
(* Concurrent requests.  Every request has its own database session and     *)
(* runs in one transaction, which db.commit() ends.  No handler and no      *)
(* engine function sets an isolation level or takes a lock, so the          *)
(* transactions run READ COMMITTED: a statement reads the rows committed    *)
(* when it starts and the session's own writes; a DELETE waits for a row    *)
(* that another open transaction has deleted and skips it if that           *)
(* transaction commits; an INSERT waits on a unique key that another open   *)
(* transaction has written.                                                 *)

\* The activity records the concurrent requests may upload in all.
MaxUploads == 1

\* A row as session `t` wrote it: its primary key (uuid4) is told apart from
\* every other row's by the session that inserted it.
Stamp(row, t) == [row EXCEPT !.is_new = FALSE] @@ ("txn" :> t)

\* What a statement of session `t` reads.
VisibleRecords(t) == activity_records \cup sessions[t].ins_rec
VisibleEstimates(t) == (emission_estimates \ sessions[t].del_est) \cup sessions[t].ins_est
VisibleSummaries(t) == (emissions_summaries \ sessions[t].del_summ) \cup sessions[t].ins_summ

\* The rows other open transactions have deleted, and the records they have inserted.
LockedEstimates(t) == UNION {sessions[u].del_est : u \in Sessions \ {t}}
LockedSummaries(t) == UNION {sessions[u].del_summ : u \in Sessions \ {t}}
PendingRecords == UNION {sessions[u].ins_rec : u \in Sessions}

\* The committed tables and the bookkeeping that a statement of an open
\* transaction leaves alone.
StoreUnchanged == UNCHANGED <<aux, emission_factors, activity_records, emission_estimates, emissions_summaries, data_source_connections, reporting_year, lastOp, resolve_call, calc>>
StoreUnchangedButSummaries == UNCHANGED <<aux, emission_factors, activity_records, emission_estimates, data_source_connections, reporting_year, lastOp, resolve_call, calc>>

\* After the SELECT of the records, or after a record: the loop, or the
\* refresh once the loop is over.
NextPc(todo) == IF todo = {} THEN "refresh" ELSE "batch"

\* recompute_emissions up to the SELECT of compute_estimates_for_company
BeginRecompute(t, company_id, year) ==
    /\ sessions[t].pc = "idle"
    /\ LET todo == Ids(BatchRecords(activity_records, company_id, NULLDATE, NULLDATE))
       IN sessions' = [sessions EXCEPT ![t] =
                          [IdleSession EXCEPT !.pc = NextPc(todo), !.company_id = company_id,
                                              !.year = year, !.replace_existing = TRUE,
                                              !.todo = todo]]
    /\ StoreUnchanged

\* upload_manual_csv up to the SELECT of compute_estimates_for_company:
\* db.add(activity) per row, db.flush()
BeginUpload(t, company_id, valid_rows) ==
    /\ sessions[t].pc = "idle"
    /\ Len(valid_rows) > 0
    /\ Cardinality(activity_records \cup PendingRecords) + Len(valid_rows) <= MaxUploads
    /\ LET taken == activity_records \cup PendingRecords
           added == CsvInsert(valid_rows, company_id, taken) \ taken
           todo == Ids(BatchRecords(activity_records \cup added, company_id, NULLDATE, NULLDATE))
       IN sessions' = [sessions EXCEPT ![t] =
                          [IdleSession EXCEPT !.pc = NextPc(todo), !.company_id = company_id,
                                              !.year = reporting_year[company_id],
                                              !.replace_existing = FALSE,
                                              !.todo = todo, !.ins_rec = added]]
    /\ StoreUnchanged

\* `record` of the current iteration of the loop.
SessionRecord(t) ==
    CHOOSE r \in VisibleRecords(t) : r.id \in sessions[t].todo /\ \A i \in sessions[t].todo : r.id <= i

\* The session after one iteration of the loop: the DELETE (or the SELECT
\* of an existing estimate) acted on `targets`, the rows of the record the
\* statement read; the INSERT is flushed.
Ensured(t, targets, fid) ==
    LET s == sessions[t]
        record == SessionRecord(t)
        visible == VisibleEstimates(t)
        missed == {e \in visible : e.activity_record_id = record.id} \ targets
        after == BatchStep(visible \ missed, emission_factors, record, s.replace_existing, fid)
        removed == (visible \ missed) \ after
        added == {Stamp(e, t) : e \in {x \in after : x.is_new}}
    IN [s EXCEPT !.pc = NextPc(s.todo \ {record.id}),
                 !.todo = s.todo \ {record.id},
                 !.targets = {},
                 !.ins_est = (s.ins_est \ removed) \cup added,
                 !.del_est = s.del_est \cup (removed \cap emission_estimates)]

\* One iteration of `for record in records`, unless the DELETE has to wait.
EnsureStep(t) ==
    /\ sessions[t].pc = "batch"
    /\ LET own == {e \in VisibleEstimates(t) : e.activity_record_id = SessionRecord(t).id}
       IN IF sessions[t].replace_existing /\ own \cap LockedEstimates(t) # {}
          THEN sessions' = [sessions EXCEPT ![t].pc = "wait_estimates", ![t].targets = own]
          ELSE \E fid \in ResolveRecord(emission_factors, SessionRecord(t)) :
                 sessions' = [sessions EXCEPT ![t] = Ensured(t, own, fid)]
    /\ StoreUnchanged

\* The DELETE goes on once the rows it waits for are released.
ResumeEnsure(t) ==
    /\ sessions[t].pc = "wait_estimates"
    /\ sessions[t].targets \cap LockedEstimates(t) = {}
    /\ \E fid \in ResolveRecord(emission_factors, SessionRecord(t)) :
         sessions' = [sessions EXCEPT ![t] = Ensured(t, sessions[t].targets, fid)]
    /\ StoreUnchanged

\* The session after the DELETE of refresh_emissions_summaries acted on `targets`.
SummariesDeleted(t, targets) ==
    [sessions[t] EXCEPT !.pc = "select",
                        !.targets = {},
                        !.ins_summ = sessions[t].ins_summ \ targets,
                        !.del_summ = sessions[t].del_summ \cup (targets \cap VisibleSummaries(t) \cap emissions_summaries)]

\* Variant: the DELETE is committed on its own, before the rebuild.
SummariesAfterCommit(committed, deleted) == committed \ deleted

\* await session.flush() after the DELETE: the statement is sent inside the
\* open transaction, the committed table keeps its rows.
SummariesAfterFlush(committed, deleted) == committed

\* refresh_emissions_summaries: the DELETE of the year's rows, unless it has to wait.
DeleteSummaries(t) ==
    /\ sessions[t].pc = "refresh"
    /\ LET targets == SummariesOf(VisibleSummaries(t), sessions[t].company_id, sessions[t].year)
       IN IF targets \cap LockedSummaries(t) # {}
          THEN /\ sessions' = [sessions EXCEPT ![t].pc = "wait_summaries", ![t].targets = targets]
               /\ UNCHANGED emissions_summaries
          ELSE /\ sessions' = [sessions EXCEPT ![t] = SummariesDeleted(t, targets)]
               /\ emissions_summaries' = SummariesAfterFlush(emissions_summaries, targets)
    /\ StoreUnchangedButSummaries

\* The DELETE goes on once the rows it waits for are released.
ResumeDeleteSummaries(t) ==
    /\ sessions[t].pc = "wait_summaries"
    /\ sessions[t].targets \cap LockedSummaries(t) = {}
    /\ sessions' = [sessions EXCEPT ![t] = SummariesDeleted(t, sessions[t].targets)]
    /\ emissions_summaries' = SummariesAfterFlush(emissions_summaries, sessions[t].targets)
    /\ StoreUnchangedButSummaries

\* refresh_emissions_summaries: the SELECT of the year's estimates and the
\* rows built from it, added to the session.
SelectEstimates(t) ==
    /\ sessions[t].pc = "select"
    /\ sessions' = [sessions EXCEPT
                      ![t].pc = "flush",
                      ![t].built = {Stamp(x, t) : x \in BuiltSummaries(VisibleEstimates(t),
                                                       sessions[t].company_id, sessions[t].year)}]
    /\ StoreUnchanged

\* uq_emissions_summary_period_scope: two rows with the same key and a
\* category that is not NULL.
SameKey(a, b) ==
    /\ a.company_id = b.company_id /\ a.reporting_year = b.reporting_year
    /\ a.period_type = b.period_type /\ a.period_value = b.period_value
    /\ a.scope = b.scope /\ a.scope_3_category = b.scope_3_category
    /\ a.scope_3_category # NULLSTR

\* The request raised or was cancelled at its current step: nothing is committed.
RolledBack(t) == [IdleSession EXCEPT !.failed_at = sessions[t].pc]

\* refresh_emissions_summaries: the final flush, the INSERT of the built
\* rows; a row whose key is committed raises IntegrityError.
FlushSummaries(t) ==
    /\ sessions[t].pc = "flush"
    /\ \A u \in Sessions \ {t} :
         \A x \in sessions[t].built, y \in sessions[u].ins_summ \cup sessions[u].del_summ : ~SameKey(x, y)
    /\ IF \E x \in sessions[t].built, y \in VisibleSummaries(t) : SameKey(x, y)
       THEN sessions' = [sessions EXCEPT ![t] = RolledBack(t)]
       ELSE sessions' = [sessions EXCEPT ![t].pc = "commit",
                                         ![t].ins_summ = sessions[t].ins_summ \cup sessions[t].built,
                                         ![t].built = {}]
    /\ StoreUnchanged

\* await db.commit()
Commit(t) ==
    /\ sessions[t].pc = "commit"
    /\ activity_records' = activity_records \cup sessions[t].ins_rec
    /\ emission_estimates' = (emission_estimates \ sessions[t].del_est) \cup sessions[t].ins_est
    /\ emissions_summaries' = (emissions_summaries \ sessions[t].del_summ) \cup sessions[t].ins_summ
    /\ sessions' = [sessions EXCEPT ![t] = IdleSession]
    /\ UNCHANGED <<aux, emission_factors, data_source_connections, reporting_year, lastOp, resolve_call, calc>>

\* The request raises or is cancelled before db.commit(): the session is
\* closed and its transaction rolled back.
Abort(t) ==
    /\ sessions[t].pc \notin {"idle"}
    /\ sessions' = [sessions EXCEPT ![t] = RolledBack(t)]
    /\ StoreUnchanged

\* The year the clients ask a recompute for.
ConcurrentYears == {2025}

\* The files two clients upload.
ConcurrentUploads == {<<r>> : r \in CsvRows}

ConcurrentInit ==
    /\ emission_factors = SeedFactors
    /\ activity_records = {}
    /\ emission_estimates = {}
    /\ emissions_summaries = {}
    /\ data_source_connections = {}
    /\ reporting_year = [c \in Companies |-> 2025]
    /\ lastOp = NoEngineCall
    /\ resolve_call = NoResolve
    /\ calc = NoCalc
    /\ sessions = [t \in Sessions |-> IdleSession]
    /\ AuxInit

ConcurrentNext ==
    \/ \E t \in Sessions, c \in Companies, y \in ConcurrentYears : BeginRecompute(t, c, y)
    \/ \E t \in Sessions, c \in Companies, rows \in ConcurrentUploads : BeginUpload(t, c, rows)
    \/ \E t \in Sessions : EnsureStep(t)
    \/ \E t \in Sessions : ResumeEnsure(t)
    \/ \E t \in Sessions : DeleteSummaries(t)
    \/ \E t \in Sessions : ResumeDeleteSummaries(t)
    \/ \E t \in Sessions : SelectEstimates(t)
    \/ \E t \in Sessions : FlushSummaries(t)
    \/ \E t \in Sessions : Commit(t)
    \/ \E t \in Sessions : Abort(t)

\* Requests of one company served at the same time.
ConcurrentSpec == ConcurrentInit /\ [][ConcurrentNext]_vars

-----------------------------------------------------------------------------
(* Properties of the estimate lifecycle and of the aggregator *)

\* The estimates that reference an activity record.
EstimatesFor(record) == {e \in emission_estimates : e.activity_record_id = record.id}

\* C1: after any sequence of ensure and batch calls, in either mode, every
\* activity record is referenced by at most one emission estimate.
C1_AtMostOneEstimate ==
    \A r \in activity_records : Cardinality(EstimatesFor(r)) <= 1

\* C1 witness: a replace-mode call ran on a record that already had an
\* estimate, and the record has an estimate that the call inserted.
C1_ReplacedWitness ==
    /\ lastOp.name \in {"ensure_estimates_for_activity", "compute_estimates_for_company"}
    /\ lastOp.args[Len(lastOp.args)] = TRUE
    /\ lastOp.repeat
    /\ lastOp.ret > 0
    /\ \E r \in activity_records : \E e \in EstimatesFor(r) : e.is_new

\* The summary rows of a company and year agree, key aside, with what the
\* aggregation of the committed estimates yields.
SummariesCurrent(company_id, year) ==
    Old(SummariesOf(emissions_summaries, company_id, year))
        = Old(BuiltSummaries(emission_estimates, company_id, year))

\* C2: when a mutation path commits, the summaries of the year it refreshed
\* are the aggregation of the estimates as they are at that commit: the
\* batch has finished before the aggregator reads.
C2_RefreshAfterBatch ==
    lastOp.year # 0 => SummariesCurrent(lastOp.args[1], lastOp.year)

\* C2 witness: a mutation path created estimates and committed summaries
\* for the year it refreshed.
C2_CommitWitness ==
    /\ lastOp.year # 0
    /\ lastOp.ret > 0
    /\ \E e \in EstimatesOfYear(emission_estimates, lastOp.args[1], lastOp.year) : e.is_new
    /\ SummariesOf(emissions_summaries, lastOp.args[1], lastOp.year) # {}

\* C3: when a mutation path commits, the summaries of every (company,
\* calendar year) in which it created or replaced an estimate are current.
C3_EveryTouchedYearRefreshed ==
    lastOp.year # 0 =>
        \A e \in emission_estimates :
            e.is_new => SummariesCurrent(e.company_id, YearOf(e.period_start))

\* The estimates whose period lies within a calendar year.
WithinYear(company_id, year) ==
    {e \in emission_estimates : /\ e.company_id = company_id
                                /\ YearOf(e.period_start) = year
                                /\ YearOf(e.period_end) = year}

\* C4: after refresh_emissions_summaries(company, year) no row of that
\* company and year survives from before the call, the rows are exactly one
\* per non-empty annual and monthly bucket of the estimates within the
\* year, and the returned count is the number of rows; with no such
\* estimate there is no row and the count is 0.
C4_FullRebuild ==
    lastOp.name = "refresh_emissions_summaries" =>
        LET company_id == lastOp.args[1]
            year == lastOp.args[2]
            rows == SummariesOf(emissions_summaries, company_id, year)
            within == WithinYear(company_id, year)
            RowsAt(period_type, period_value, scope, category) ==
                {s \in rows : /\ s.period_type = period_type
                              /\ s.period_value = period_value
                              /\ s.scope = scope
                              /\ s.scope_3_category = category}
        IN /\ \A s \in rows : s.is_new
           /\ \A e \in within :
                /\ Cardinality(RowsAt("annual", year, e.scope, e.scope_3_category)) = 1
                /\ Cardinality(RowsAt("monthly", MonthValue(e.period_start), e.scope,
                                      e.scope_3_category)) = 1
           /\ \A s \in rows :
                \E e \in within :
                    /\ e.scope = s.scope
                    /\ e.scope_3_category = s.scope_3_category
                    /\ \/ s.period_type = "annual" /\ s.period_value = year
                       \/ s.period_type = "monthly" /\ s.period_value = MonthValue(e.period_start)
           /\ lastOp.ret = Cardinality(rows)
           /\ (within = {} => rows = {} /\ lastOp.ret = 0)

\* C4 witness: refresh ran twice in a row for a company and year that has
\* estimates, so that the second call found rows to discard.
C4_RebuiltWitness ==
    /\ lastOp.name = "refresh_emissions_summaries"
    /\ lastOp.repeat
    /\ lastOp.ret > 0
    /\ SummariesOf(emissions_summaries, lastOp.args[1], lastOp.args[2]) # {}

\* C5: in every summary row the measured, estimated and manual buckets add
\* up to the total.
C5_QualityBucketsAddUp ==
    \A s \in emissions_summaries :
        s.measured_kg_co2e + s.estimated_kg_co2e + s.manual_kg_co2e = s.total_kg_co2e

-----------------------------------------------------------------------------
(* Properties of the resolver *)

\* The validity of a factor overlaps the period of the last resolver call.
OverlapsPeriod(f) ==
    /\ (f.valid_from = NULLDATE \/ f.valid_from <= resolve_call.period_end)
    /\ (f.valid_to = NULLDATE \/ f.valid_to >= resolve_call.period_start)

\* A factor matches the last resolver call, the category compared exactly.
MatchesExactly(f) ==
    /\ f.activity_type = resolve_call.activity_type
    /\ f.unit = resolve_call.unit
    /\ f.scope = resolve_call.scope
    /\ (resolve_call.scope = 3 => f.scope_3_category = resolve_call.scope_3_category)
    /\ (resolve_call.scope # 3 => f.scope_3_category = NULLSTR)
    /\ OverlapsPeriod(f)

\* A factor matches the last resolver call, an empty category counting as
\* an absent one.
MatchesEmptyAsAbsent(f) ==
    /\ f.activity_type = resolve_call.activity_type
    /\ f.unit = resolve_call.unit
    /\ f.scope = resolve_call.scope
    /\ (resolve_call.scope = 3 /\ resolve_call.scope_3_category \notin {NULLSTR, ""}
            => f.scope_3_category = resolve_call.scope_3_category)
    /\ (resolve_call.scope = 3 /\ resolve_call.scope_3_category \in {NULLSTR, ""}
            => f.scope_3_category = NULLSTR)
    /\ (resolve_call.scope # 3 => f.scope_3_category = NULLSTR)
    /\ OverlapsPeriod(f)

Resolved == resolve_call.result # NOFACTOR
ResolvedFactor == FactorById(emission_factors, resolve_call.result)

\* C6: among the factors that match, the resolver returns one with no
\* valid_to if there is one; otherwise one with the latest valid_to; and
\* among those equal to it in valid_to, one with the latest non-null
\* valid_from.
C6_PrefersOpenEnded ==
    Resolved =>
        LET matching == {f \in emission_factors : MatchesEmptyAsAbsent(f)}
        IN /\ (\E f \in matching : f.valid_to = NULLDATE) => ResolvedFactor.valid_to = NULLDATE
           /\ ResolvedFactor.valid_to # NULLDATE =>
                \A f \in matching : f.valid_to <= ResolvedFactor.valid_to
           /\ \A f \in matching :
                f.valid_to = ResolvedFactor.valid_to /\ f.valid_from # NULLDATE =>
                    /\ ResolvedFactor.valid_from # NULLDATE
                    /\ ResolvedFactor.valid_from >= f.valid_from

\* C7: two calls of the resolver in a row with the same signature, the
\* same period and the same factor table return the same factor.
C7_ResolverDeterministic ==
    [][(/\ resolve_call # NoResolve
        /\ emission_factors' = emission_factors
        /\ [resolve_call' EXCEPT !.result = NOFACTOR] = [resolve_call EXCEPT !.result = NOFACTOR])
       => resolve_call'.result = resolve_call.result]_vars

\* C8 as stated: the returned factor matches the inputs with the category
\* compared exactly, and no factor is returned only if none matches so.
C8_ExactCategory ==
    resolve_call # NoResolve =>
        /\ Resolved => MatchesExactly(ResolvedFactor)
        /\ ~Resolved => \A f \in emission_factors : ~MatchesExactly(f)

\* C8 amended: the returned factor matches the inputs, where for scope 3 a
\* non-empty category is compared exactly and an absent or empty category
\* requires the factor's category to be absent; no factor is returned only
\* if none matches so.
C8_EmptyCategoryAsAbsent ==
    resolve_call # NoResolve =>
        /\ Resolved => MatchesEmptyAsAbsent(ResolvedFactor)
        /\ ~Resolved => \A f \in emission_factors : ~MatchesEmptyAsAbsent(f)

\* C8 witness: a scope 3 call with the empty string as category returned a
\* factor.
C8_EmptyCategoryWitness ==
    /\ Resolved
    /\ resolve_call.scope = 3
    /\ resolve_call.scope_3_category = ""

-----------------------------------------------------------------------------
(* Properties of the calculator and of the incremental batch *)

IncrementalBatch(op) ==
    op.name = "compute_estimates_for_company" /\ op.args[4] = FALSE

\* C10: an incremental compute_estimates_for_company that directly follows
\* one with the same arguments returns 0 and leaves every estimate in
\* place, key and values.
C10_IncrementalIdempotent ==
    [][(IncrementalBatch(lastOp') /\ lastOp'.repeat)
       => /\ lastOp'.ret = 0
          /\ emission_estimates' = Old(emission_estimates)]_vars

\* C10 witness: the second of two incremental batches in a row returned 0
\* over a store that holds estimates.
C10_SecondRunWitness ==
    /\ IncrementalBatch(lastOp)
    /\ lastOp.repeat
    /\ lastOp.ret = 0
    /\ emission_estimates # {}

-----------------------------------------------------------------------------
(* Properties of replace mode and of the batch's count *)

ReplaceBatch(op) ==
    op.name = "compute_estimates_for_company" /\ op.args[4] = TRUE

\* C11: a replace-mode compute_estimates_for_company that directly follows
\* one with the same arguments leaves the same estimates, row keys aside:
\* as many rows and, per activity record, the same factor and emissions.
C11_ReplaceIdempotent ==
    [][(ReplaceBatch(lastOp') /\ lastOp'.repeat)
       => Old(emission_estimates') = Old(emission_estimates)]_vars

\* The last call was ensure_estimates_for_activity in replace mode.
ReplaceEnsure(op) ==
    op.name = "ensure_estimates_for_activity" /\ op.args[2] = TRUE

\* The factors that match an activity record: signature equal, validity
\* overlapping the period.
MatchesRecord(f, r) ==
    /\ f.activity_type = r.activity_type
    /\ f.unit = r.unit
    /\ f.scope = r.scope
    /\ f.scope_3_category = (IF r.scope = 3 /\ r.scope_3_category # "" THEN r.scope_3_category ELSE NULLSTR)
    /\ (f.valid_from = NULLDATE \/ f.valid_from <= r.period_end)
    /\ (f.valid_to = NULLDATE \/ f.valid_to >= r.period_start)

\* The activity records the last call processed in replace mode: the
\* record given to ensure, or the records of the batch's window.
ReplacedRecords ==
    IF ReplaceEnsure(lastOp) THEN {r \in activity_records : r.id = lastOp.args[1]}
    ELSE IF ReplaceBatch(lastOp)
         THEN {r \in activity_records :
                 /\ r.company_id = lastOp.args[1]
                 /\ (lastOp.args[2] = NULLDATE \/ r.period_end >= lastOp.args[2])
                 /\ (lastOp.args[3] = NULLDATE \/ r.period_start <= lastOp.args[3])}
         ELSE {}

Batch(op) == op.name = "compute_estimates_for_company"

\* The activity records in the window of the last batch.
BatchWindowRecords ==
    IF Batch(lastOp)
    THEN {r \in activity_records :
            /\ r.company_id = lastOp.args[1]
            /\ (lastOp.args[2] = NULLDATE \/ r.period_end >= lastOp.args[2])
            /\ (lastOp.args[3] = NULLDATE \/ r.period_start <= lastOp.args[3])}
    ELSE {}

\* No factor matches the activity record.
Unpriceable(r) == \A f \in emission_factors : ~MatchesRecord(f, r)

\* C13: a record that no factor matches does not end the batch: after
\* compute_estimates_for_company every record of the window that a factor
\* matches has an estimate, and the returned count is the number of
\* estimates the call inserted (records skipped as covered or as without a
\* factor are not counted).
C13_NoFactorSkipped ==
    Batch(lastOp) =>
        /\ \A r \in BatchWindowRecords : ~Unpriceable(r) => EstimatesFor(r) # {}
        /\ \A r \in BatchWindowRecords : Unpriceable(r) => EstimatesFor(r) = {}
        /\ lastOp.ret = Cardinality({e \in emission_estimates : e.is_new})

\* C13 witness: a batch over a record without a factor and a later record
\* that it priced, while a factor table with rows is in place.
C13_MixedBatchWitness ==
    /\ Batch(lastOp)
    /\ emission_factors # {}
    /\ \E r, q \in BatchWindowRecords :
         /\ r.id < q.id
         /\ Unpriceable(r)
         /\ \E e \in EstimatesFor(q) : e.is_new
    /\ lastOp.ret = 1

-----------------------------------------------------------------------------
(* Properties of the buckets *)

RECURSIVE SumTotals(_)
\* The sum of total_kg_co2e over summary rows.
SumTotals(rows) ==
    IF rows = {} THEN 0
    ELSE LET s == CHOOSE x \in rows : TRUE
         IN s.total_kg_co2e + SumTotals(rows \ {s})

\* The estimates within the year that a summary row of the year covers if
\* each estimate counts in full in the month of its period start.
Contributors(s) ==
    {e \in WithinYear(s.company_id, s.reporting_year) :
        /\ e.scope = s.scope
        /\ e.scope_3_category = s.scope_3_category
        /\ (s.period_type = "monthly" => MonthValue(e.period_start) = s.period_value)}

\* C14: after a refresh each annual row totals the full emissions of the
\* year's estimates of its scope and category, each monthly row the full
\* emissions of those whose period starts in its month, whatever the
\* length of the period; so the monthly rows of a scope and category add
\* up to the annual row.
C14_TwoBucketsNoProRating ==
    lastOp.year # 0 =>
        LET rows == SummariesOf(emissions_summaries, lastOp.args[1], lastOp.year)
        IN /\ \A s \in rows : s.total_kg_co2e = SumEmissions(Contributors(s))
           /\ \A a \in rows :
                a.period_type = "annual" =>
                    SumTotals({m \in rows : /\ m.period_type = "monthly"
                                            /\ m.scope = a.scope
                                            /\ m.scope_3_category = a.scope_3_category})
                        = a.total_kg_co2e

\* C14 witness: a refreshed year holds an estimate whose period runs over
\* several months, and monthly rows for two months of one scope and
\* category.
C14_MultiMonthWitness ==
    /\ lastOp.year # 0
    /\ \E e \in WithinYear(lastOp.args[1], lastOp.year) :
         MonthValue(e.period_start) # MonthValue(e.period_end)
    /\ \E m, n \in SummariesOf(emissions_summaries, lastOp.args[1], lastOp.year) :
         /\ m.period_type = "monthly" /\ n.period_type = "monthly"
         /\ m.scope = n.scope /\ m.scope_3_category = n.scope_3_category
         /\ m.period_value # n.period_value


\* The estimates of a summary row's bucket that carry a score.
Scored(s) == {e \in Contributors(s) : e.confidence_score # NOSCORE}

\* C15: after a refresh the confidence average of a row is null exactly
\* when no estimate of its bucket has a score, and is otherwise the mean of
\* the scores of the estimates that have one, rounded to two decimals (a
\* nearest multiple of 0.01); estimates without a score count neither in
\* the sum nor in the number.
C15_ConfidenceMean ==
    lastOp.year # 0 =>
        \A s \in SummariesOf(emissions_summaries, lastOp.args[1], lastOp.year) :
            /\ (s.confidence_score_avg = NOSCORE) <=> (Scored(s) = {})
            /\ Scored(s) # {} =>
                 2 * Abs(s.confidence_score_avg * Cardinality(Scored(s)) - SumScores(Scored(s)))
                     <= Cardinality(Scored(s))

\* C15 witness: a refreshed row with an average whose bucket holds an
\* estimate with a score and an estimate without one.
C15_MixedBucketWitness ==
    /\ lastOp.year # 0
    /\ \E s \in SummariesOf(emissions_summaries, lastOp.args[1], lastOp.year) :
         /\ Scored(s) # {} /\ Scored(s) # Contributors(s)
         /\ s.confidence_score_avg # NOSCORE
-----------------------------------------------------------------------------
(* Properties of concurrent requests *)

\* No request is in flight.
Quiescent == \A t \in Sessions : sessions[t].pc = "idle"

\* The estimates one rebuild of the committed records yields: one per
\* record that a factor matches.
SingleRebuildEstimates ==
    {ComputeEstimateForActivity(r, FactorById(emission_factors, fid)) :
        <<r, fid>> \in {x \in activity_records \X {f.id : f \in emission_factors} :
                          x[2] \in ResolveRecord(emission_factors, x[1])}}

\* C16: once the concurrent requests of a company and year have finished,
\* every committed summary row is a row of one rebuild, built from one
\* estimate per activity record; none adds up estimates of two rebuilds.
C16_LastWriterWins ==
    Quiescent =>
        \A s \in emissions_summaries :
            \E b \in BuiltSummaries(SingleRebuildEstimates, s.company_id, s.reporting_year) :
                Stamp(b, s.txn) = s

\* C17: in every interleaving of two batch requests the committed table,
\* and the table as each session reads it, hold at most one estimate per
\* activity record.
C17_AtMostOneUnderInterleaving ==
    \A r \in activity_records :
        /\ Cardinality(EstimatesFor(r)) <= 1
        /\ \A t \in Sessions :
             Cardinality({e \in VisibleEstimates(t) : e.activity_record_id = r.id}) <= 1


\* C18: the committed tables change only when a request commits, and then
\* by all of its writes at once; a request that raises or is cancelled at
\* any step before that leaves them as they were, so no other request reads
\* summaries deleted and not rebuilt, or part of a batch's estimates.
C18_AllOrNothing ==
    [][\/ UNCHANGED <<activity_records, emission_estimates, emissions_summaries>>
       \/ \E t \in Sessions :
            /\ sessions[t].pc = "commit"
            /\ sessions'[t] = IdleSession
            /\ activity_records' = activity_records \cup sessions[t].ins_rec
            /\ emission_estimates' = (emission_estimates \ sessions[t].del_est) \cup sessions[t].ins_est
            /\ emissions_summaries' = (emissions_summaries \ sessions[t].del_summ) \cup sessions[t].ins_summ]_vars

\* C18 witness: a recompute failed after its DELETE of the summaries and
\* before the rebuilt rows were inserted, and the committed rows of the
\* year are still those of the estimates.
C18_FailedMidRefreshWitness ==
    \E t \in Sessions :
        /\ sessions[t].pc = "idle"
        /\ sessions[t].failed_at \in {"select", "flush"}
        /\ emission_estimates # {}
        /\ \A c \in Companies :
             {[s EXCEPT !.txn = 0] : s \in SummariesOf(emissions_summaries, c, 2025)}
                 = {Stamp(b, 0) : b \in BuiltSummaries(emission_estimates, c, 2025)}


-----------------------------------------------------------------------------
(* Properties of intake and of deletion *)

\* An observation whose period ends before it starts, or whose quantity is negative.
Malformed(r) == r.period_start > r.period_end \/ r.quantity.c < 0

\* C19: manual entry and CSV import reject a malformed observation: no
\* activity record with a period that ends before it starts or with a
\* negative quantity is stored, and no estimate is priced from one.
C19_MalformedRejected ==
    /\ \A r \in activity_records : ~Malformed(r)
    /\ \A e \in emission_estimates :
         e.period_start <= e.period_end /\ e.activity_quantity.c >= 0


\* The estimates whose activity record is still stored.
Referencing == {e \in emission_estimates : e.activity_record_id \in Ids(activity_records)}

\* C20: no estimate references a deleted activity record, and after a
\* refresh of a year no total of that year's rows includes the emissions
\* of a deleted record: each is the sum over the estimates of stored
\* records only.
C20_DeletedLeavesNoTrace ==
    /\ emission_estimates = Referencing
    /\ lastOp.name = "refresh_emissions_summaries" =>
         \A s \in SummariesOf(emissions_summaries, lastOp.args[1], lastOp.year) :
             s.total_kg_co2e = SumEmissions(Contributors(s) \cap Referencing)

\* C20 witness: the first record was deleted, a later one is stored and
\* priced, and the year has been refreshed.
C20_AfterDeleteWitness ==
    /\ lastOp.name = "refresh_emissions_summaries"
    /\ 1 \notin Ids(activity_records)
    /\ 2 \in Ids(activity_records)
    /\ SummariesOf(emissions_summaries, lastOp.args[1], lastOp.year) # {}


-----------------------------------------------------------------------------
(* Properties of the estimate as a snapshot *)

\* The activity record an estimate was priced from.
RecordOf(e) == CHOOSE r \in activity_records : r.id = e.activity_record_id

\* The call re-prices: a batch or an ensure in replace mode.
Reprices(op) == ReplaceBatch(op) \/ ReplaceEnsure(op)

\* C21: an estimate is a snapshot.  A row a call inserts copies scope,
\* category, quantity, data quality, assumptions, confidence and period
\* from its activity record and the factor value from the factor as the
\* table holds it at that call, and its emissions are their product; a
\* step that is not a replace-mode run, a revision of the factor table
\* included, leaves every stored estimate in place and unchanged.
C21_AuditSnapshot ==
    [][/\ \A e \in emission_estimates' :
            e.is_new =>
                /\ e.scope = RecordOf(e)'.scope
                /\ e.scope_3_category = RecordOf(e)'.scope_3_category
                /\ e.activity_quantity = RecordOf(e)'.quantity
                /\ e.data_quality = RecordOf(e)'.data_quality
                /\ e.assumptions = RecordOf(e)'.assumptions
                /\ e.confidence_score = RecordOf(e)'.confidence_score
                /\ e.period_start = RecordOf(e)'.period_start
                /\ e.period_end = RecordOf(e)'.period_end
                /\ \E f \in emission_factors :
                     /\ f.id = e.emission_factor_id
                     /\ e.factor_value = f.factor_value
                     /\ e.emissions_kg_co2e = EmissionsKgCo2e(e.activity_quantity, f.factor_value)
       /\ ~Reprices(lastOp') => Old(emission_estimates) \subseteq Old(emission_estimates')]_vars

\* C21 witness: after an incremental batch an estimate still carries the
\* value its factor had when it was priced, which the table no longer holds.
C21_StaleFactorWitness ==
    /\ Batch(lastOp) /\ ~ReplaceBatch(lastOp)
    /\ \E e \in emission_estimates, f \in emission_factors :
         f.id = e.emission_factor_id /\ f.factor_value # e.factor_value


-----------------------------------------------------------------------------
(* Properties of the rate limiter *)

\* The number of admitted requests of a key that are at most one window old.
Recent(key) ==
    Cardinality({i \in 1..Len(admitted_log[key]) :
                    clock - admitted_log[key][i] <= RATE_LIMIT_WINDOW})

\* C29: of the requests admitted for a key, no eleven fall within 60
\* seconds; a request is rejected with 429, and not recorded, exactly when
\* ten admitted requests of its key are at most 60 seconds old, and is
\* admitted and recorded otherwise.
C29_TenPerWindow ==
    [][/\ \A key \in RateKeys :
            \A i \in 1..Len(admitted_log'[key]) :
                i + RATE_LIMIT_MAX <= Len(admitted_log'[key]) =>
                    admitted_log'[key][i + RATE_LIMIT_MAX] - admitted_log'[key][i] > RATE_LIMIT_WINDOW
       /\ (response' # response /\ response'.endpoint = "rate_limit") =>
            LET key == response'.body[1]
            IN /\ (response'.status = 429) <=> (Recent(key) >= RATE_LIMIT_MAX)
               /\ response'.status = 429 => admitted_log' = admitted_log
               /\ response'.status # 429 =>
                    admitted_log' = [admitted_log EXCEPT ![key] = Append(@, clock)]]_vars

\* C29 witness: a key that was full, was admitted again once its first
\* requests were more than 60 seconds old, and is full again.
C29_RefilledWitness ==
    /\ response.endpoint = "rate_limit"
    /\ response.status = 429
    /\ Len(admitted_log[response.body[1]]) > RATE_LIMIT_MAX


-----------------------------------------------------------------------------
(* Properties of password reset *)

\* The step is a password reset request presenting the token.
ResetStep(token) ==
    /\ response'.endpoint = "password_reset"
    /\ response'.body = <<token>>
    /\ response' # response \/ rate_limits' # rate_limits \/ password_hash' # password_hash

Redeemed(token) == \E r \in password_reset_tokens : r.token = token /\ r.used_at # NOTUSED
Expired(token) == \E r \in password_reset_tokens : r.token = token /\ r.expires_at < clock
Unknown(token) == \A r \in password_reset_tokens : r.token # token

\* C22 as stated: a reset request with a redeemed, unknown or expired token
\* is answered with status 400 and leaves every password hash unchanged.
C22_RejectedWith400 ==
    [][\A token \in PresentedTokens :
          (ResetStep(token) /\ (Redeemed(token) \/ Unknown(token) \/ Expired(token))) =>
              /\ response'.status = 400
              /\ password_hash' = password_hash]_vars

\* C22 amended: a successful reset leaves its token redeemed, a redeemed
\* token stays redeemed, and a reset request with a redeemed, unknown or
\* expired token leaves every password hash unchanged and is answered with
\* status 400, or with 429 when ten reset requests of the client were
\* admitted within the last 60 seconds.
C22_SingleUse ==
    [][\A token \in PresentedTokens :
          /\ Redeemed(token) => Redeemed(token)'
          /\ (ResetStep(token) /\ response'.status = 200) => Redeemed(token)'
          /\ (ResetStep(token) /\ (Redeemed(token) \/ Unknown(token) \/ Expired(token))) =>
                /\ password_hash' = password_hash
                /\ response'.status \in {400, 429}
                /\ (response'.status = 429) <=>
                      (Recent(<<"10.0.0.1", "password_reset">>) >= RATE_LIMIT_MAX)]_vars

\* C22 witness: a token was redeemed and a later request with it was refused
\* with status 400.
C22_ReusedTokenWitness ==
    /\ response.endpoint = "password_reset"
    /\ response.status = 400
    /\ \E r \in password_reset_tokens :
          /\ response.body = <<r.token>>
          /\ r.used_at # NOTUSED
          /\ r.used_at < clock
          /\ password_hash[r.user] = <<"new-password-123", 1>>


-----------------------------------------------------------------------------
(* Properties of reports *)

\* The reports the public endpoint may serve for a token.
Shared(share_token) ==
    {r \in reports : r.status = "published" /\ ~r.deleted /\ r.shareable_token = share_token}

\* The step answers a request to the endpoint.
Answers(endpoint) == response'.endpoint = endpoint /\ response' # response

\* The report a publish or detail request names, if the caller's company has it live.
Requested == {r \in reports : r.id = response'.body[1] /\ r.company_id = CompanyOf(response'.user) /\ ~r.deleted}

\* A draft carries no token, a published report carries one of its own; the
\* share link answers 200 exactly for the token of a published, live report;
\* a publish that changes a report turns a live draft into a published
\* report with a new token; a soft delete marks the report deleted.
ShareLinkRules ==
    /\ \A r \in reports' : (r.status = "draft") <=> (r.shareable_token = NOTOKEN)
    /\ \A r, q \in reports' : (r.shareable_token = q.shareable_token /\ r.status = "published") => r = q
    /\ Answers("get_public_report") =>
          /\ (response'.status = 200) <=> (Shared(response'.body[1]) # {})
          /\ response'.status # 200 => response'.status = 404
          /\ response'.status = 200 => \E r \in Shared(response'.body[1]) : response'.body[2] = r.id
    /\ (Answers("publish_report") /\ reports' # reports) =>
          \E r \in Requested :
             /\ r.status = "draft"
             /\ response'.status = 200
             /\ response'.body[3] \notin {q.shareable_token : q \in reports}
             /\ reports' = (reports \ {r}) \cup {[r EXCEPT !.status = "published", !.shareable_token = response'.body[3]]}
    /\ (Answers("publish_report") /\ response'.status = 200 /\ reports' = reports) =>
          \E r \in reports : r.id = response'.body[1] /\ r.shareable_token = response'.body[3]
    /\ (Answers("delete_report") /\ response'.status = 200) =>
          \E r \in Requested : reports' = (reports \ {r}) \cup {[r EXCEPT !.deleted = TRUE]}

\* The step answers a publish request of a paying, non-demo user for a
\* live report that is already published.
Republish ==
    /\ Answers("publish_report")
    /\ PaidThenNonDemo(response'.user) = 0
    /\ \E r \in Requested : r.status = "published"

C26_DetailWhateverStatus ==
    [][(Answers("get_report") /\ RequirePaidPlan(response'.user) = 0) =>
          /\ Requested # {} =>
                /\ response'.status = 200
                /\ \E r \in Requested : response'.body = <<r.id, r.status, r.shareable_token>>
          /\ Requested = {} => response'.status = 404]_vars


-----------------------------------------------------------------------------
(* Properties of the demo account *)

\* The stored company data: activities, estimates, summaries, reports,
\* connections, the company profile and the onboarding state.
CompanyData ==
    <<activity_records, Old(emission_estimates), Old(emissions_summaries), reports,
      data_source_connections, reporting_year, onboarding_state>>

\* C24: a request of the demo user to an endpoint that writes company data
\* is rejected and leaves the stored company data unchanged.
C24_DemoReadOnly ==
    [][(response'.user = "demo" /\ response' # response) =>
          /\ response'.status >= 400
          /\ CompanyData' = CompanyData]_vars


-----------------------------------------------------------------------------
(* Properties of keyed requests *)

\* C25: when every creation request carries the same key, company and
\* payload, and likewise every publication request of a report, at most one
\* report is created, and every request that completes is answered with
\* the response of the first: 200 and the one report, or 200 and the token
\* the report carries.
C25_SafeRetries ==
    /\ Cardinality(reports) <= 1
    /\ response.endpoint = "create_report" =>
          response.status = 200 /\ \E r \in reports : response.body = <<r.id, "draft", NOTOKEN>>
    /\ response.endpoint = "publish_report" =>
          response.status = 200 /\ \E r \in reports : response.body = <<r.id, "published", r.shareable_token>>


-----------------------------------------------------------------------------
(* Properties of periods that cross a year end *)

RECURSIVE SubsetSums(_)
\* The totals the subsets of a set of estimates add up to.
SubsetSums(group) ==
    IF group = {} THEN {0}
    ELSE LET e == CHOOSE x \in group : TRUE
             rest == SubsetSums(group \ {e})
         IN rest \cup {t + e.emissions_kg_co2e : t \in rest}

\* C27: a summary row of a year counts only estimates whose whole period
\* lies within that calendar year, at any time and for every year; right
\* after a refresh of a year its rows count exactly those estimates, each in
\* its annual and in one monthly row, so an estimate that starts in one
\* year and ends in a later one is counted in no row of any year.
C27_WholePeriodInYear ==
    /\ \A s \in emissions_summaries :
          /\ s.total_kg_co2e \in SubsetSums(Contributors(s))
          /\ Contributors(s) # {}
    /\ lastOp.name = "refresh_emissions_summaries" =>
          LET rows == SummariesOf(emissions_summaries, lastOp.args[1], lastOp.year)
          IN /\ \A s \in rows : s.total_kg_co2e = SumEmissions(Contributors(s))
             /\ \A e \in WithinYear(lastOp.args[1], lastOp.year) :
                   \E a, m \in rows :
                      /\ a.period_type = "annual" /\ e \in Contributors(a)
                      /\ m.period_type = "monthly" /\ e \in Contributors(m)

\* C27 witness: right after a refresh of a year in which the period of a
\* stored estimate starts or ends without lying within it, while the year
\* has a row for another estimate of the same scope and category.
C27_CrossYearWitness ==
    /\ lastOp.name = "refresh_emissions_summaries"
    /\ \E e \in emission_estimates :
          /\ YearOf(e.period_start) # YearOf(e.period_end)
          /\ lastOp.year \in {YearOf(e.period_start), YearOf(e.period_end)}
          /\ \E s \in SummariesOf(emissions_summaries, e.company_id, lastOp.year) :
                s.scope = e.scope /\ s.scope_3_category = e.scope_3_category


-----------------------------------------------------------------------------
(* Properties of the provider sync *)

\* C28: a sync of a connection whose mock activities for the reporting
\* year exist is answered 200 with activities_created = 0, adds no activity
\* record, and runs the incremental batch and the refresh.
C28_ResyncSucceeds ==
    [][(response'.endpoint = "sync_integration" /\ response'.user = "owner" /\ response' # response
        /\ \E conn \in GetConnection("acme", "aws") :
              MockActivities(activity_records, "acme", conn.id, reporting_year["acme"]) # {}) =>
          /\ response'.status = 200
          /\ response'.body = <<0>>
          /\ activity_records' = activity_records
          /\ lastOp'.name = "sync_integration"
          /\ SummariesOf(emissions_summaries', "acme", reporting_year["acme"])
                = BuiltSummaries(emission_estimates', "acme", reporting_year["acme"])]_vars


-----------------------------------------------------------------------------
(* Properties of manual entry *)

\* The record is the one the request asked for, confidence score aside.
StoredFrom(r, req) ==
    /\ r.scope = req.scope
    /\ r.scope_3_category = req.scope_3_category
    /\ r.activity_type = req.activity_type
    /\ r.unit = req.unit
    /\ r.quantity = DecimalOfFloat(req.quantity)
    /\ r.period_start = req.period_start
    /\ r.period_end = req.period_end
    /\ r.data_quality = req.data_quality

\* C30: the activity record a manual entry creates stores the confidence
\* score of the request as supplied, 0 included, and no score only when the
\* request has none.
C30_ScoreAsSupplied ==
    [][lastOp'.name = "create_manual_activity" =>
          \A r \in activity_records' \ activity_records :
             \E req \in ManualRequests \cup MalformedRequests :
                StoredFrom(r, req) /\ r.confidence_score = req.confidence_score]_vars

====
